---- MODULE Spec2Model ----
(***************************************************************************)
(* Gateway core of the vehicle-intelligence API: API-key authentication,   *)
(* the per-organization rate limiter, the request dispatcher and the usage *)
(* recorder (supabase/functions/_shared/auth.ts, _shared/response.ts and   *)
(* supabase/functions/vehicles/index.ts).                                  *)
(***************************************************************************)
EXTENDS Integers, Sequences, FiniteSets, TLC

(***************************************************************************)
(* Bounds of the model.                                                    *)
(***************************************************************************)
\* Largest per-minute limit a caller passes to the limiter.
MaxLimit == 2
\* Number of whole windows the clock may run past time 0.
MaxWindows == 1

Orgs == {"orgA", "orgB"}

\* The requests in flight (each served by its own run of the handler).
Reqs == {"r1", "r2"}

\* const windowMs = 60000 (checkRateLimit)
windowMs == 60000

\* Math.ceil((windowMs - elapsed) / 1000): milliseconds per second
msPerSecond == 1000

\* Clock readings (Date.now(), in ms) the model lets the clock take: around
\* the start of every window, one millisecond after it, and 999 ms before the
\* next one.
Offsets == {0, 1, 59001}
TimePoints == { k * windowMs + d : k \in 0..MaxWindows, d \in Offsets }

Limits == 1..MaxLimit

\* The value of an absent optional string field (JavaScript undefined / null).
Undefined == "undefined"

\* An optional number: {} when absent (undefined), {n} when present.
None == {}
Some(n) == {n}

VARIABLES
  now,            \* Date.now()
  rateLimitMap,   \* auth.ts: const rateLimitMap = new Map<string, {count, windowStart}>()
  lastCall,       \* the latest checkRateLimit call and what it returned
  winFirst,       \* per organization: time of the first call of its current 60 s window (-1: none yet)
  winCalls,       \* per organization: calls made in that window
  winAllowed,     \* per organization: calls of that window answered allowed=true
  recentAllowed,  \* per organization: times of its allowed calls of the last 60 s, oldest first
  tierLimit,      \* per organization: the per-minute limit of its tier (auth.rateLimit)
  reqs,           \* per request: where its Deno.serve handler stands, and what it has seen
  usage_logs,     \* rows of the usage_logs table
  daily_usage,    \* per organization: request counter of the daily aggregate
  rateLimiters,   \* distributed limiter: const rateLimiters = new Map<number, Ratelimit>() (its keys)
  dist,           \* distributed limiter: per caller, its checkRateLimit call in flight
  db,             \* the domain store: rows of the vehicle tables
  call,           \* the domain handler being run: its input, the faults it meets, its result
  organizations,  \* rows of the organizations table
  ensure          \* dashboard: per callback, where its ensureOrganization run stands

limiterVars == <<now, rateLimitMap, lastCall, winFirst, winCalls, winAllowed,
                 recentAllowed>>

gatewayVars == <<reqs, usage_logs, daily_usage>>

distVars == <<rateLimiters, dist>>

domainVars == <<db, call>>

dashboardVars == <<organizations, ensure>>

vars == <<now, rateLimitMap, lastCall, winFirst, winCalls, winAllowed, recentAllowed,
          tierLimit,
          reqs, usage_logs, daily_usage, rateLimiters, dist, db, call,
          organizations, ensure>>

(***************************************************************************)
(* Helpers                                                                 *)
(***************************************************************************)
\* Math.ceil(a / b) for integers a and b > 0
Ceil(a, b) == -((-a) \div b)

\* Map.set(key, value)
MapSet(map, key, value) ==
  [k \in (DOMAIN map) \cup {key} |-> IF k = key THEN value ELSE map[k]]

EmptyMap == [k \in {} |-> Undefined]

(***************************************************************************)
(* The local rate limiter: checkRateLimit (auth.ts 87-107).  The operator  *)
(* gives the map after the call together with the returned object.         *)
(***************************************************************************)
\* A plausible slip: the limit test written with > instead of >=.
checkRateLimit_offByOne(map, organizationId, limit, t) ==
  IF organizationId \notin DOMAIN map
       \/ (t - map[organizationId].windowStart) > windowMs
  THEN [map |-> MapSet(map, organizationId, [count |-> 1, windowStart |-> t]),
        allowed |-> TRUE, retryAfter |-> None]
  ELSE IF map[organizationId].count > limit
  THEN [map |-> map, allowed |-> FALSE,
        retryAfter |-> Some(Ceil(windowMs - (t - map[organizationId].windowStart), msPerSecond))]
  ELSE [map |-> MapSet(map, organizationId,
                       [count |-> map[organizationId].count + 1,
                        windowStart |-> map[organizationId].windowStart]),
        allowed |-> TRUE, retryAfter |-> None]

\* A plausible slip: the window taken to end when 60 s have passed, not
\* when more than 60 s have.
checkRateLimit_resetAtBoundary(map, organizationId, limit, t) ==
  IF organizationId \notin DOMAIN map
       \/ (t - map[organizationId].windowStart) >= windowMs
  THEN [map |-> MapSet(map, organizationId, [count |-> 1, windowStart |-> t]),
        allowed |-> TRUE, retryAfter |-> None]
  ELSE IF map[organizationId].count >= limit
  THEN [map |-> map, allowed |-> FALSE,
        retryAfter |-> Some(Ceil(windowMs - (t - map[organizationId].windowStart), msPerSecond))]
  ELSE [map |-> MapSet(map, organizationId,
                       [count |-> map[organizationId].count + 1,
                        windowStart |-> map[organizationId].windowStart]),
        allowed |-> TRUE, retryAfter |-> None]

\* A plausible slip: current.count++ left out.
checkRateLimit_forgetsIncrement(map, organizationId, limit, t) ==
  IF organizationId \notin DOMAIN map
       \/ (t - map[organizationId].windowStart) > windowMs
  THEN [map |-> MapSet(map, organizationId, [count |-> 1, windowStart |-> t]),
        allowed |-> TRUE, retryAfter |-> None]
  ELSE IF map[organizationId].count >= limit
  THEN [map |-> map, allowed |-> FALSE,
        retryAfter |-> Some(Ceil(windowMs - (t - map[organizationId].windowStart), msPerSecond))]
  ELSE [map |-> map, allowed |-> TRUE, retryAfter |-> None]

\* A plausible slip: a denied call counted all the same.
checkRateLimit_countsDenied(map, organizationId, limit, t) ==
  IF organizationId \notin DOMAIN map
       \/ (t - map[organizationId].windowStart) > windowMs
  THEN [map |-> MapSet(map, organizationId, [count |-> 1, windowStart |-> t]),
        allowed |-> TRUE, retryAfter |-> None]
  ELSE [map |-> MapSet(map, organizationId,
                       [count |-> map[organizationId].count + 1,
                        windowStart |-> map[organizationId].windowStart]),
        allowed |-> map[organizationId].count < limit,
        retryAfter |-> IF map[organizationId].count < limit THEN None
                       ELSE Some(Ceil(windowMs - (t - map[organizationId].windowStart),
                                      msPerSecond))]

checkRateLimit(map, organizationId, limit, t) ==
  IF organizationId \notin DOMAIN map
       \/ (t - map[organizationId].windowStart) > windowMs
  THEN \* New window
       [map |-> MapSet(map, organizationId, [count |-> 1, windowStart |-> t]),
        allowed |-> TRUE, retryAfter |-> None]
  ELSE IF map[organizationId].count >= limit
  THEN [map |-> map, allowed |-> FALSE,
        retryAfter |-> Some(Ceil(windowMs - (t - map[organizationId].windowStart), msPerSecond))]
  ELSE \* current.count++
       [map |-> MapSet(map, organizationId,
                       [count |-> map[organizationId].count + 1,
                        windowStart |-> map[organizationId].windowStart]),
        allowed |-> TRUE, retryAfter |-> None]

\* Before any call: no organization, no result.
NoCall == [org |-> "none", limit |-> 0, elapsed |-> 0, nth |-> 0,
           allowed |-> TRUE, retryAfter |-> None]

\* Whether a call at time t opens a new 60-second window for the organization:
\* it is the first call, or more than 60 s have passed since the window's
\* first call.
OpensWindow(o, t) == winFirst[o] < 0 \/ t - winFirst[o] > windowMs

\* The allowed calls that lie no more than 60 s before clock reading t.
StillRecent(times, t) ==
  LET Within(s) == t - s <= windowMs
  IN [o \in Orgs |-> SelectSeq(times[o], Within)]

\* One synchronous call of checkRateLimit at the current clock reading,
\* with the bookkeeping of the window it falls in.
LimiterCall(o, limit) ==
  LET r == checkRateLimit(rateLimitMap, o, limit, now)
      fresh == OpensWindow(o, now)
  IN /\ rateLimitMap' = r.map
     /\ winFirst' = [winFirst EXCEPT ![o] = IF fresh THEN now ELSE @]
     /\ winCalls' = [winCalls EXCEPT ![o] = IF fresh THEN 1 ELSE @ + 1]
     /\ winAllowed' = [winAllowed EXCEPT ![o] =
                         (IF fresh THEN 0 ELSE @) + (IF r.allowed THEN 1 ELSE 0)]
     /\ recentAllowed' = [recentAllowed EXCEPT ![o] =
                            IF r.allowed THEN Append(@, now) ELSE @]
     /\ lastCall' = [org |-> o, limit |-> limit,
                     elapsed |-> IF fresh THEN 0 ELSE now - winFirst[o],
                     nth |-> IF fresh THEN 1 ELSE winCalls[o] + 1,
                     allowed |-> r.allowed, retryAfter |-> r.retryAfter]

(***************************************************************************)
(* Response envelopes: _shared/response.ts                                 *)
(***************************************************************************)
\* JavaScript truthiness of an optional number: undefined and 0 are falsy.
Truthy(opt) == \E n \in opt : n # 0

\* A message, with the number interpolated into it (if any).
Msg(text) == [text |-> text, arg |-> None]

\* errorResponse(code, message, status = 400, retryAfter?)
errorResponse(code, message, status, retryAfter) ==
  [status |-> status,
   code |-> code,
   message |-> message,
   retry_after |-> IF Truthy(retryAfter) THEN retryAfter ELSE None,
   retryAfterHeader |-> IF Truthy(retryAfter) THEN retryAfter ELSE None,
   data |-> Undefined]

notFoundResponse(text) == errorResponse("not_found", Msg(text), 404, None)

unauthorizedResponse(text) == errorResponse("unauthorized", Msg(text), 401, None)

rateLimitResponse(retryAfter) ==
  errorResponse("rate_limit_exceeded",
                [text |-> "Rate limit exceeded. Please retry after ${retryAfter} seconds.",
                 arg |-> retryAfter],
                429, retryAfter)

internalErrorResponse == errorResponse("internal_error", Msg("Internal server error"), 500, None)

\* successResponse(data): status 200, no error object
successResponse(data) ==
  [status |-> 200, code |-> Undefined, message |-> Msg(Undefined),
   retry_after |-> None, retryAfterHeader |-> None, data |-> data]

\* No response object yet.
NoResponse ==
  [status |-> 0, code |-> Undefined, message |-> Msg(Undefined),
   retry_after |-> None, retryAfterHeader |-> None, data |-> Undefined]

\* What the runtime answers when the handler's promise rejects.
UncaughtResponse ==
  [status |-> 500, code |-> Undefined, message |-> Msg("Internal Server Error"),
   retry_after |-> None, retryAfterHeader |-> None, data |-> Undefined]

(***************************************************************************)
(* Authorization headers.  A header value is a sequence of tokens; a       *)
(* request either carries the header or does not.                          *)
(***************************************************************************)
AlphaNum == {"a", "b", "z", "1", "2"}
Whitespace == {" ", "\t"}

Header(tokens) == [present |-> TRUE, value |-> tokens]
NoHeader == [present |-> FALSE, value |-> <<>>]

WellFormedHeaders ==
  { Header(<<"Bearer", " ", "ci", "_", "live", "_", "a", "1">>),
    Header(<<"Bearer", " ", "ci", "_", "test", "_", "b", "2">>),
    Header(<<"Bearer", " ", "ci", "_", "live", "_", "z">>),
    Header(<<"Bearer", " ", "\t", "ci", "_", "test", "_", "z">>) }

MalformedHeaders ==
  { Header(<<"bearer", " ", "ci", "_", "live", "_", "a", "1">>),
    Header(<<"Basic", " ", "a", "1">>),
    Header(<<"Bearer", "ci", "_", "live", "_", "a", "1">>),
    Header(<<"Bearer", " ", "sk", "_", "live", "_", "a", "1">>),
    Header(<<"Bearer", " ", "ci", "_", "prod", "_", "a", "1">>),
    Header(<<"Bearer", " ", "ci", "_", "live", "_">>),
    Header(<<"Bearer", " ", "ci", "_", "live", "_", "a", "-", "1">>),
    Header(<<"Bearer", " ", "ci", "_", "live", "_", "a", "1", " ">>),
    Header(<<" ", "Bearer", " ", "ci", "_", "live", "_", "a", "1">>) }

HeaderInputs == {NoHeader, Header(<<>>)} \cup WellFormedHeaders \cup MalformedHeaders

\* Index of the first token at or after i that is not whitespace (\s+ is greedy).
RECURSIVE SkipWhitespace(_, _)
SkipWhitespace(h, i) ==
  IF i <= Len(h) /\ h[i] \in Whitespace THEN SkipWhitespace(h, i + 1) ELSE i

\* The regular expression with any environment tag accepted.
authHeaderMatch_anyEnv(h) ==
  LET k == SkipWhitespace(h, 2)
  IN IF /\ Len(h) >= 1 /\ h[1] = "Bearer"
        /\ k > 2
        /\ Len(h) >= k + 4
        /\ h[k] = "ci" /\ h[k + 1] = "_"
        /\ h[k + 3] = "_"
        /\ \A j \in (k + 4)..Len(h) : h[j] \in AlphaNum
     THEN [matched |-> TRUE, key |-> SubSeq(h, k, Len(h))]
     ELSE [matched |-> FALSE, key |-> <<>>]

\* authHeader.match(/^Bearer\s+(ci_(?:live|test)_[a-zA-Z0-9]+)$/): whether it
\* matches, and the captured key (match[1]).
authHeaderMatch(h) ==
  LET k == SkipWhitespace(h, 2)
  IN IF /\ Len(h) >= 1 /\ h[1] = "Bearer"
        /\ k > 2
        /\ Len(h) >= k + 4
        /\ h[k] = "ci" /\ h[k + 1] = "_"
        /\ h[k + 2] \in {"live", "test"}
        /\ h[k + 3] = "_"
        /\ \A j \in (k + 4)..Len(h) : h[j] \in AlphaNum
     THEN [matched |-> TRUE, key |-> SubSeq(h, k, Len(h))]
     ELSE [matched |-> FALSE, key |-> <<>>]

\* SHA-256 of the key, hex encoded: deterministic and collision-free, so the
\* digest stands for the key it was computed from.
Sha256Hex(apiKey) == <<"sha256">> \o apiKey

(***************************************************************************)
(* The credential store behind validate_api_key.                           *)
(***************************************************************************)
\* api_keys rows by key hash.
ApiKeys ==
  (Sha256Hex(<<"ci", "_", "live", "_", "a", "1">>) :>
      [api_key_id |-> "key_a1", organization_id |-> "orgA"])
  @@ (Sha256Hex(<<"ci", "_", "test", "_", "b", "2">>) :>
      [api_key_id |-> "key_b2", organization_id |-> "orgB"])

OrgName == [o \in Orgs |-> IF o = "orgA" THEN "Org A" ELSE "Org B"]
TierOf == [o \in Orgs |-> IF o = "orgA" THEN "tier_free" ELSE "tier_pro"]
MonthlyLimitOf == [o \in Orgs |-> IF o = "orgA" THEN 1000 ELSE 50000]

\* What the store holds about a known key and its organization when it is asked.
CredFlags == [active : BOOLEAN, unexpired : BOOLEAN, subscription : BOOLEAN, quota : BOOLEAN]
AllGood == [active |-> TRUE, unexpired |-> TRUE, subscription |-> TRUE, quota |-> TRUE]
FalseCount(c) ==
  Cardinality({f \in {"active", "unexpired", "subscription", "quota"} : ~c[f]})
CredStates == {c \in CredFlags : FalseCount(c) <= 1 \/ FalseCount(c) = 4}

NoRow ==
  [is_valid |-> FALSE, rejection_reason |-> Undefined, api_key_id |-> Undefined,
   organization_id |-> Undefined, org_name |-> Undefined, tier_id |-> Undefined,
   rate_limit |-> None, monthly_limit |-> None]

Rejection(reason) == [NoRow EXCEPT !.rejection_reason = reason]

\* validate_api_key(p_key_hash): the checks in their priority order.
validate_api_key(keyHash, cred, limits) ==
  IF keyHash \notin DOMAIN ApiKeys THEN <<Rejection("invalid_key")>>
  ELSE IF ~cred.active THEN <<Rejection("key_disabled")>>
  ELSE IF ~cred.unexpired THEN <<Rejection("key_expired")>>
  ELSE IF ~cred.subscription THEN <<Rejection("subscription_inactive")>>
  ELSE IF ~cred.quota THEN <<Rejection("quota_exceeded")>>
  ELSE LET o == ApiKeys[keyHash].organization_id
       IN <<[is_valid |-> TRUE, rejection_reason |-> Undefined,
             api_key_id |-> ApiKeys[keyHash].api_key_id,
             organization_id |-> o, org_name |-> OrgName[o], tier_id |-> TierOf[o],
             rate_limit |-> Some(limits[o]), monthly_limit |-> Some(MonthlyLimitOf[o])]>>

\* The answers supabase.rpc('validate_api_key') can give: {data, error}.  A
\* store fault gives an error and no data; a store may also answer with no row.
RpcAnswers(keyHash, limits) ==
  { [error |-> TRUE, data |-> <<>>, cred |-> AllGood] }
  \cup { [error |-> FALSE, data |-> validate_api_key(keyHash, c, limits), cred |-> c] :
           c \in CredStates }
  \cup (IF keyHash \in DOMAIN ApiKeys THEN {}
        ELSE { [error |-> FALSE, data |-> <<>>, cred |-> AllGood] })

NoAnswer == [error |-> FALSE, data |-> <<>>, cred |-> AllGood]

(***************************************************************************)
(* authenticateRequest: auth.ts 19-85                                      *)
(***************************************************************************)
AuthFailure(error, errorCode) ==
  [isValid |-> FALSE, apiKeyId |-> Undefined, organizationId |-> Undefined,
   orgName |-> Undefined, tierId |-> Undefined, rateLimit |-> None,
   monthlyLimit |-> None, error |-> error, errorCode |-> errorCode]

NoAuth == AuthFailure(Undefined, Undefined)

\* errorMessages[result.rejection_reason] || 'Authentication failed'
errorMessages(reason) ==
  CASE reason = "invalid_key" -> "Invalid API key"
    [] reason = "key_disabled" -> "API key has been disabled"
    [] reason = "key_expired" -> "API key has expired"
    [] reason = "subscription_inactive" -> "Subscription is not active"
    [] reason = "quota_exceeded" -> "Monthly quota exceeded. Please upgrade your plan."
    [] OTHER -> "Authentication failed"

\* The synchronous head of authenticateRequest (lines 20-29): the result it
\* returns at once, if any.
headerCheck(authHeader) ==
  IF ~authHeader.present \/ authHeader.value = <<>>
  THEN [done |-> TRUE,
        result |-> AuthFailure("Missing Authorization header", "missing_auth"),
        key |-> <<>>]
  ELSE IF ~authHeaderMatch(authHeader.value).matched
  THEN [done |-> TRUE,
        result |-> AuthFailure("Invalid API key format", "invalid_format"),
        key |-> <<>>]
  ELSE [done |-> FALSE, result |-> NoAuth, key |-> authHeaderMatch(authHeader.value).key]

\* A plausible slip: every rejection reported as invalid_key.
authResult_conflated(answer) ==
  IF answer.error
  THEN AuthFailure("Internal validation error", "internal_error")
  ELSE IF Len(answer.data) = 0
  THEN AuthFailure("Invalid API key", "invalid_key")
  ELSE LET result == answer.data[1]
       IN IF ~result.is_valid
          THEN AuthFailure("Invalid API key", "invalid_key")
          ELSE [isValid |-> TRUE, apiKeyId |-> result.api_key_id,
                organizationId |-> result.organization_id,
                orgName |-> result.org_name, tierId |-> result.tier_id,
                rateLimit |-> result.rate_limit, monthlyLimit |-> result.monthly_limit,
                error |-> Undefined, errorCode |-> Undefined]

\* The tail of authenticateRequest (lines 50-84): the result built from the
\* answer of the validate_api_key call.
authResult(answer) ==
  IF answer.error
  THEN AuthFailure("Internal validation error", "internal_error")
  ELSE IF Len(answer.data) = 0
  THEN AuthFailure("Invalid API key", "invalid_key")
  ELSE LET result == answer.data[1]
       IN IF ~result.is_valid
          THEN AuthFailure(errorMessages(result.rejection_reason), result.rejection_reason)
          ELSE [isValid |-> TRUE, apiKeyId |-> result.api_key_id,
                organizationId |-> result.organization_id,
                orgName |-> result.org_name, tierId |-> result.tier_id,
                rateLimit |-> result.rate_limit, monthlyLimit |-> result.monthly_limit,
                error |-> Undefined, errorCode |-> Undefined]

\* The callbacks of AuthProvider's effect that run ensureOrganization.
Runs == {"getSession", "onAuthStateChange"}

IdleRun ==
  [pc |-> "idle", user |-> Undefined, slug |-> <<>>, result |-> None]

(***************************************************************************)
(* The distributed rate limiter: checkRateLimit of the Upstash variant of  *)
(* auth.ts (lines 259-275).                                                *)
(***************************************************************************)
\* Concurrent callers of the distributed checkRateLimit.
Callers == {"c1", "c2"}

IdleCall ==
  [pc |-> "idle", org |-> Undefined, limit |-> 0,
   answer |-> [kind |-> Undefined, success |-> FALSE, reset |-> 0, remaining |-> 0],
   result |-> [settled |-> Undefined, allowed |-> FALSE, retryAfter |-> None,
               remaining |-> None]]

\* What rateLimiter.limit(organizationId) can come back with: a decision of
\* the counter service ({success, reset, remaining}), or a throw / rejection
\* when the service cannot be reached.  reset is a clock reading of the
\* service, which may lie behind the caller's clock.
LimitAnswers(limit, t) ==
  { [kind |-> "throws", success |-> FALSE, reset |-> 0, remaining |-> 0] }
  \cup { [kind |-> "answers", success |-> TRUE, reset |-> t + windowMs, remaining |-> k] :
           k \in 0..(limit - 1) }
  \cup { [kind |-> "answers", success |-> FALSE, reset |-> rs, remaining |-> 0] :
           rs \in {t - 500, t + 1, t + windowMs} }

Max2(a, b) == IF a > b THEN a ELSE b

\* A plausible slip: the catch block denies (fails closed) instead of allowing.
checkRateLimitDistributed_failClosed(answer, t) ==
  IF answer.kind = "throws"
  THEN [settled |-> "resolved", allowed |-> FALSE, retryAfter |-> Some(1), remaining |-> Some(0)]
  ELSE IF ~answer.success
  THEN [settled |-> "resolved", allowed |-> FALSE,
        retryAfter |-> Some(Max2(1, Ceil(answer.reset - t, msPerSecond))),
        remaining |-> Some(0)]
  ELSE [settled |-> "resolved", allowed |-> TRUE, retryAfter |-> None,
        remaining |-> Some(answer.remaining)]

\* The object the promise of checkRateLimit resolves to, given what
\* rateLimiter.limit came back with at clock reading t.
checkRateLimitDistributed(answer, t) ==
  IF answer.kind = "throws"
  THEN \* catch: fail open
       [settled |-> "resolved", allowed |-> TRUE, retryAfter |-> None, remaining |-> None]
  ELSE IF ~answer.success
  THEN [settled |-> "resolved", allowed |-> FALSE,
        retryAfter |-> Some(Max2(1, Ceil(answer.reset - t, msPerSecond))),
        remaining |-> Some(0)]
  ELSE [settled |-> "resolved", allowed |-> TRUE, retryAfter |-> None,
        remaining |-> Some(answer.remaining)]

(***************************************************************************)
(* State of one request                                                    *)
(***************************************************************************)
NoRate == [called |-> FALSE, allowed |-> FALSE, retryAfter |-> None]

IdleReq ==
  [pc |-> "idle", header |-> NoHeader, key |-> <<>>, answer |-> NoAnswer,
   auth |-> NoAuth, rate |-> NoRate, method |-> Undefined, endpoint |-> Undefined,
   domain |-> Undefined, response |-> NoResponse, insert |-> Undefined, increment |-> Undefined,
   returned |-> NoResponse, trace |-> <<>>]

\* No domain handler has been called.
NoHandlerCall == [pc |-> "idle"]

\* The domain store without any row.
EmptyDb ==
  [vehicle_specs |-> <<>>, vehicle_warranties |-> <<>>, vehicle_market_values |-> <<>>,
   vehicle_maintenance_schedules |-> <<>>]

(***************************************************************************)
(* Initial state: an empty limiter map, no request received, an empty      *)
(* usage store; every organization's tier has a limit >= 1.                *)
(***************************************************************************)
InitCommon ==
  /\ reqs = [r \in Reqs |-> IdleReq]
  /\ usage_logs = {}
  /\ daily_usage = [o \in Orgs |-> 0]
  /\ now = 0
  /\ rateLimitMap = EmptyMap
  /\ lastCall = NoCall
  /\ winFirst = [o \in Orgs |-> -1]
  /\ winCalls = [o \in Orgs |-> 0]
  /\ winAllowed = [o \in Orgs |-> 0]
  /\ recentAllowed = [o \in Orgs |-> <<>>]
  /\ rateLimiters = {}
  /\ dist = [c \in Callers |-> IdleCall]
  /\ call = NoHandlerCall
  /\ organizations = {}
  /\ ensure = [run \in Runs |-> IdleRun]

\* The limiter alone is run with every assignment of limits to organizations.
LimiterInit == InitCommon /\ tierLimit \in [Orgs -> Limits] /\ db = EmptyDb

\* The gateway is run with one organization on the smallest limit and the
\* other on the largest.
Init ==
  /\ InitCommon
  /\ tierLimit = [o \in Orgs |-> IF o = "orgA" THEN 1 ELSE MaxLimit]
  /\ db = EmptyDb

\* The clock moves on.
Tick ==
  /\ \E t \in TimePoints : t > now /\ now' = t
  /\ recentAllowed' = StillRecent(recentAllowed, now')
  /\ UNCHANGED <<rateLimitMap, lastCall, winFirst, winCalls, winAllowed, tierLimit>>
  /\ UNCHANGED gatewayVars
  /\ UNCHANGED <<distVars, domainVars, dashboardVars>>

\* A caller invokes checkRateLimit(o, limit of o's tier).
CallCheckRateLimit ==
  /\ \E o \in Orgs :
       /\ (OpensWindow(o, now) \/ winCalls[o] <= tierLimit[o])
       /\ LimiterCall(o, tierLimit[o])
  /\ UNCHANGED <<now, tierLimit>>
  /\ UNCHANGED gatewayVars
  /\ UNCHANGED <<distVars, domainVars, dashboardVars>>

LimiterNext == Tick \/ CallCheckRateLimit

SpecLimiter == LimiterInit /\ [][LimiterNext]_vars

(***************************************************************************)
(* The dispatcher: Deno.serve handler, vehicles/index.ts 18-132            *)
(***************************************************************************)
\* if (!auth.isValid) return unauthorizedResponse(...): whether the request
\* passes the authentication gate.
authGate(auth) == auth.isValid

\* A plausible slip: the denial of the limiter ignored.
rateLimitGate_ignored(rateLimitCheck) == TRUE

\* if (!rateLimitCheck.allowed) return rateLimitResponse(...): whether the
\* request passes the rate-limit gate.
rateLimitGate(rateLimitCheck) == rateLimitCheck.allowed

\* auth.rateLimit!
LimitOf(auth) == CHOOSE n \in auth.rateLimit : TRUE

\* The response of a route that answers without any await: a method other
\* than GET, an unknown endpoint, a handler that rejects its parameters.
Methods == {"GET", "POST"}

\* A plausible slip: the method test left out of the router.
methodAllowed_any(method) == TRUE

\* if (req.method !== 'GET') response = errorResponse('method_not_allowed', ...)
methodAllowed(method) == method = "GET"

SyncRoutes == {"unknown_endpoint", "missing_params"}
DomainRoutes == {"/vehicles/lookup"}

syncResponse(method, route) ==
  IF ~methodAllowed(method)
  THEN errorResponse("method_not_allowed", Msg("Only GET requests are supported"), 405, None)
  ELSE IF route = "unknown_endpoint" THEN notFoundResponse("Unknown endpoint")
  ELSE errorResponse("missing_params", Msg("year, make, and model are required"), 400, None)

\* What a handler that queries the domain store comes back with.
DomainOutcomes == {"found", "no_rows", "store_error", "throws"}

domainResponse(outcome) ==
  CASE outcome = "found" -> successResponse("vehicle_data")
    [] outcome = "no_rows" ->
         notFoundResponse("No vehicle data found for the specified year, make, model")
    [] outcome = "store_error" -> internalErrorResponse
    [] outcome = "throws" -> internalErrorResponse   \* the catch block, line 111-114

\* A plausible slip: the status logged is the one of a successful response.
usageLogRow_always200(r, auth, endpoint, method, response) ==
  [req |-> r, api_key_id |-> auth.apiKeyId, organization_id |-> auth.organizationId,
   endpoint |-> endpoint, method |-> method, response_status |-> 200, tokens_used |-> 1]

\* The row logUsage inserts into usage_logs (auth.ts 126-138, index.ts 118-129).
usageLogRow(r, auth, endpoint, method, response) ==
  [req |-> r, api_key_id |-> auth.apiKeyId, organization_id |-> auth.organizationId,
   endpoint |-> endpoint, method |-> method, response_status |-> response.status,
   tokens_used |-> 1]

\* How a store call made by logUsage can end.
StoreCallOutcomes == {"ok", "error", "throws"}

\* A plausible slip: logUsage without its try/catch.
logUsage_rethrows(insert, increment) ==
  IF insert = "throws" \/ increment = "throws" THEN "rejected" ELSE "resolved"

\* How the promise of logUsage settles, given how its two store calls ended
\* (auth.ts 124-152: everything thrown is caught and logged).
logUsage(insert, increment) == "resolved"

\* return response (line 131); a rejected handler promise is answered by the runtime.
Deliver(response, settled) == IF settled = "resolved" THEN response ELSE UncaughtResponse

\* The request ends: its response is returned to the client.
Finish(r, fields, response) ==
  reqs' = [reqs EXCEPT ![r] = [fields EXCEPT !.pc = "done", !.response = response,
                                             !.returned = response]]

\* A request arrives with its method.  authenticateRequest reads the Authorization header;
\* without a well-formed credential the handler answers at once, otherwise
\* the key is hashed and validate_api_key is called.
Receive(r) ==
  /\ reqs[r].pc = "idle"
  /\ \E h \in HeaderInputs, method \in Methods :
       LET head == headerCheck(h)
           got == [reqs[r] EXCEPT !.header = h, !.method = method]
       IN IF head.done
          THEN Finish(r, [got EXCEPT !.auth = head.result],
                      unauthorizedResponse(head.result.error))
          ELSE reqs' = [reqs EXCEPT ![r] =
                          [got EXCEPT !.pc = "awaitValidate", !.key = head.key,
                                      !.trace = <<"sha256", "validate_api_key">>]]
  /\ UNCHANGED <<limiterVars, tierLimit, usage_logs, daily_usage>>
  /\ UNCHANGED <<distVars, domainVars, dashboardVars>>

\* validate_api_key answers.  The handler then runs, without yielding, up to
\* its next await: the authentication gate, the rate-limit check, the
\* routing, and for a route that answers at once the call of logUsage.
ValidateReturns(r) ==
  /\ reqs[r].pc = "awaitValidate"
  /\ \E answer \in RpcAnswers(Sha256Hex(reqs[r].key), tierLimit) :
       LET auth == authResult(answer)
           got == [reqs[r] EXCEPT !.answer = answer, !.auth = auth]
       IN IF ~authGate(auth)
          THEN /\ Finish(r, got, unauthorizedResponse(auth.error))
               /\ UNCHANGED <<limiterVars, usage_logs>>
          ELSE LET rl == checkRateLimit(rateLimitMap, auth.organizationId, LimitOf(auth), now)
                   checked == [got EXCEPT
                                 !.rate = [called |-> TRUE, allowed |-> rl.allowed,
                                           retryAfter |-> rl.retryAfter],
                                 !.trace = Append(@, "checkRateLimit")]
               IN /\ LimiterCall(auth.organizationId, LimitOf(auth))
                  /\ UNCHANGED now
                  /\ IF ~rateLimitGate(rl)
                     THEN /\ Finish(r, checked, rateLimitResponse(rl.retryAfter))
                          /\ UNCHANGED usage_logs
                     ELSE \E route \in SyncRoutes \cup DomainRoutes :
                            IF methodAllowed(got.method) /\ route \in DomainRoutes
                            THEN /\ reqs' = [reqs EXCEPT ![r] =
                                     [checked EXCEPT !.pc = "awaitDomain",
                                                     !.endpoint = route,
                                                     !.trace = Append(@, "domain_query")]]
                                 /\ UNCHANGED usage_logs
                            ELSE /\ reqs' = [reqs EXCEPT ![r] =
                                     [checked EXCEPT !.pc = "awaitInsert",
                                                     !.endpoint = "url.pathname",
                                                     !.response = syncResponse(got.method, route),
                                                     !.trace = Append(@, "usage_logs.insert")]]
                                 /\ UNCHANGED usage_logs
  /\ UNCHANGED <<tierLimit, daily_usage>>
  /\ UNCHANGED <<distVars, domainVars, dashboardVars>>

\* A plausible slip: the catch block returns its 500 itself, so that a
\* throwing handler never gets to logUsage.
DomainReturns_returnsFromCatch(r) ==
  /\ reqs[r].pc = "awaitDomain"
  /\ \E outcome \in DomainOutcomes :
       IF outcome = "throws"
       THEN Finish(r, [reqs[r] EXCEPT !.domain = outcome], domainResponse(outcome))
       ELSE reqs' = [reqs EXCEPT ![r] =
                       [@ EXCEPT !.pc = "awaitInsert", !.domain = outcome,
                                 !.response = domainResponse(outcome),
                                 !.trace = Append(@, "usage_logs.insert")]]
  /\ UNCHANGED <<limiterVars, tierLimit, usage_logs, daily_usage>>
  /\ UNCHANGED <<distVars, domainVars, dashboardVars>>

\* The handler's domain queries come back (or throw); the response is now
\* determined and logUsage is called.
DomainReturns(r) ==
  /\ reqs[r].pc = "awaitDomain"
  /\ \E outcome \in DomainOutcomes :
       reqs' = [reqs EXCEPT ![r] =
                  [@ EXCEPT !.pc = "awaitInsert", !.domain = outcome,
                            !.response = domainResponse(outcome),
                            !.trace = Append(@, "usage_logs.insert")]]
  /\ UNCHANGED <<limiterVars, tierLimit, usage_logs, daily_usage>>
  /\ UNCHANGED <<distVars, domainVars, dashboardVars>>

\* logUsage: the insert into usage_logs ends.  A returned error is ignored
\* and the aggregate is incremented next; a throw ends logUsage.
InsertReturns(r) ==
  /\ reqs[r].pc = "awaitInsert"
  /\ \E outcome \in StoreCallOutcomes :
       /\ usage_logs' = IF outcome = "ok"
                        THEN usage_logs \cup {usageLogRow(r, reqs[r].auth, reqs[r].endpoint,
                                                          reqs[r].method, reqs[r].response)}
                        ELSE usage_logs
       /\ IF outcome = "throws"
          THEN reqs' = [reqs EXCEPT ![r] =
                          [@ EXCEPT !.pc = "done", !.insert = outcome,
                                    !.returned = Deliver(reqs[r].response,
                                                         logUsage(outcome, Undefined))]]
          ELSE reqs' = [reqs EXCEPT ![r] =
                          [@ EXCEPT !.pc = "awaitIncrement", !.insert = outcome,
                                    !.trace = Append(@, "increment_daily_usage")]]
  /\ UNCHANGED <<limiterVars, tierLimit, daily_usage>>
  /\ UNCHANGED <<distVars, domainVars, dashboardVars>>

\* logUsage: the increment_daily_usage call ends; logUsage returns and the
\* handler returns the response.
IncrementReturns(r) ==
  /\ reqs[r].pc = "awaitIncrement"
  /\ \E outcome \in StoreCallOutcomes :
       /\ daily_usage' = IF outcome = "ok"
                         THEN [daily_usage EXCEPT ![reqs[r].auth.organizationId] = @ + 1]
                         ELSE daily_usage
       /\ reqs' = [reqs EXCEPT ![r] =
                     [@ EXCEPT !.pc = "done", !.increment = outcome,
                               !.returned = Deliver(reqs[r].response,
                                                    logUsage(reqs[r].insert, outcome))]]
  /\ UNCHANGED <<limiterVars, tierLimit, usage_logs>>
  /\ UNCHANGED <<distVars, domainVars, dashboardVars>>

\* Clock readings taken while requests are in flight: the start, the last
\* millisecond of the first window and the first millisecond after it.
GatewayTimes == {0, windowMs, windowMs + 1}

ClockAdvances ==
  /\ \E t \in GatewayTimes : t > now /\ now' = t
  /\ recentAllowed' = StillRecent(recentAllowed, now')
  /\ UNCHANGED <<rateLimitMap, lastCall, winFirst, winCalls, winAllowed, tierLimit>>
  /\ UNCHANGED gatewayVars
  /\ UNCHANGED <<distVars, domainVars, dashboardVars>>

\* Requests are told apart only by their names: r1 is taken to arrive first.
ArrivalOrder(r) == r = "r1" \/ reqs["r1"].pc # "idle"

Next ==
  \/ ClockAdvances
  \/ \E r \in Reqs : ArrivalOrder(r) /\ Receive(r)
  \/ \E r \in Reqs : ValidateReturns(r)
  \/ \E r \in Reqs : DomainReturns(r)
  \/ \E r \in Reqs : InsertReturns(r)
  \/ \E r \in Reqs : IncrementReturns(r)

Spec == Init /\ [][Next]_vars

(***************************************************************************)
(* Claims about the local limiter                                          *)
(***************************************************************************)
\* C1: of the calls an organization makes inside one 60-second window (clock
\* reading minus window start at most 60000 ms, 60000 included), the first
\* `limit` are allowed and the (limit+1)-th is denied with retryAfter > 0.
C1_LimitPlusOneDeniedPositiveRetry ==
  (lastCall.org # "none" /\ lastCall.elapsed <= windowMs) =>
     /\ (lastCall.nth <= lastCall.limit => lastCall.allowed)
     /\ (lastCall.nth = lastCall.limit + 1 =>
           (~lastCall.allowed /\ \E ra \in lastCall.retryAfter : ra > 0))

\* C2: for every organization the stored window count never exceeds the
\* limit passed by the calls of that window, and no more calls of one window
\* than that limit are answered allowed=true.
C2_CountNeverExceedsLimit ==
  \A o \in Orgs :
     /\ (o \in DOMAIN rateLimitMap => rateLimitMap[o].count <= tierLimit[o])
     /\ winAllowed[o] <= tierLimit[o]
     /\ (lastCall.org = o /\ lastCall.nth > lastCall.limit => ~lastCall.allowed)

\* An organization has made more calls in its window than its limit, and the
\* latest one was turned away with the count standing at the limit.
C2_Witness ==
  \E o \in Orgs :
     /\ lastCall.org = o /\ ~lastCall.allowed
     /\ winCalls[o] > tierLimit[o]
     /\ o \in DOMAIN rateLimitMap /\ rateLimitMap[o].count = tierLimit[o]
     /\ winAllowed[o] = tierLimit[o]

(***************************************************************************)
(* Specification of the distributed limiter: callers on any node invoke    *)
(* checkRateLimit while the counter service answers, denies or fails.      *)
(***************************************************************************)
\* checkRateLimit(o, limit) is called: getRateLimiter caches a limiter for
\* the limit and rateLimiter.limit(o) is awaited.
DistCall(c) ==
  /\ dist[c].pc = "idle"
  /\ \E o \in Orgs :
       /\ rateLimiters' = rateLimiters \cup {tierLimit[o]}
       /\ dist' = [dist EXCEPT ![c] = [IdleCall EXCEPT !.pc = "awaitLimit", !.org = o,
                                                      !.limit = tierLimit[o]]]
  /\ UNCHANGED <<limiterVars, tierLimit, gatewayVars, domainVars, dashboardVars>>

\* rateLimiter.limit settles and checkRateLimit returns.
DistLimitReturns(c) ==
  /\ dist[c].pc = "awaitLimit"
  /\ \E answer \in LimitAnswers(dist[c].limit, now) :
       dist' = [dist EXCEPT ![c] = [@ EXCEPT !.pc = "returned", !.answer = answer,
                                            !.result = checkRateLimitDistributed(answer, now)]]
  /\ UNCHANGED <<limiterVars, tierLimit, gatewayVars, rateLimiters, domainVars, dashboardVars>>

\* The caller takes the result; it may call again.
DistDone(c) ==
  /\ dist[c].pc = "returned"
  /\ dist' = [dist EXCEPT ![c] = IdleCall]
  /\ UNCHANGED <<limiterVars, tierLimit, gatewayVars, rateLimiters, domainVars, dashboardVars>>

DistNext ==
  \/ ClockAdvances
  \/ \E c \in Callers : DistCall(c)
  \/ \E c \in Callers : DistLimitReturns(c)
  \/ \E c \in Callers : DistDone(c)

SpecDistributed == LimiterInit /\ [][DistNext]_vars

\* C6: whenever the counter service call throws or rejects, checkRateLimit
\* resolves (no exception) with allowed=true, for every organization and limit.
C6_FailOpen ==
  \A c \in Callers :
     (dist[c].pc = "returned" /\ dist[c].answer.kind = "throws") =>
        /\ dist[c].result.settled = "resolved"
        /\ dist[c].result.allowed

\* The counter service failed for both callers, of different organizations,
\* and both were let through.
C6_Witness ==
  /\ \A c \in Callers :
        /\ dist[c].pc = "returned" /\ dist[c].answer.kind = "throws"
        /\ dist[c].result.allowed
  /\ dist["c1"].org # dist["c2"].org

(***************************************************************************)
(* Claims about the gateway                                                *)
(***************************************************************************)
Events(r) == { reqs[r].trace[i] : i \in 1..Len(reqs[r].trace) }

\* Position of an event in a request's trace (0 when it did not happen).
Pos(r, e) ==
  IF e \in Events(r)
  THEN CHOOSE i \in 1..Len(reqs[r].trace) : reqs[r].trace[i] = e
  ELSE 0

LaterStages == {"domain_query", "usage_logs.insert", "increment_daily_usage"}

\* C3: within one request authentication succeeds strictly before the
\* rate-limit check and the rate-limit check passes strictly before any
\* domain query; a request rejected at authentication touches neither the
\* rate-limit counter nor the domain store nor the usage store, and a
\* request rejected by the limiter touches neither the domain store nor the
\* usage store.
C3_GateOrdering ==
  \A r \in Reqs :
     /\ ("checkRateLimit" \in Events(r) =>
           /\ reqs[r].auth.isValid
           /\ 0 < Pos(r, "validate_api_key")
           /\ Pos(r, "validate_api_key") < Pos(r, "checkRateLimit"))
     /\ \A e \in LaterStages \cap Events(r) :
           /\ reqs[r].auth.isValid
           /\ reqs[r].rate.called /\ reqs[r].rate.allowed
           /\ 0 < Pos(r, "checkRateLimit")
           /\ Pos(r, "checkRateLimit") < Pos(r, e)
     /\ (reqs[r].pc # "idle" /\ ~reqs[r].auth.isValid /\ reqs[r].pc # "awaitValidate" =>
           /\ Events(r) \cap ({"checkRateLimit"} \cup LaterStages) = {}
           /\ ~reqs[r].rate.called
           /\ \A row \in usage_logs : row.req # r)
     /\ (reqs[r].rate.called /\ ~reqs[r].rate.allowed =>
           /\ Events(r) \cap LaterStages = {}
           /\ reqs[r].pc = "done" /\ reqs[r].returned.status = 429
           /\ \A row \in usage_logs : row.req # r)

\* One request was turned away by the limiter after a successful
\* authentication while the other passed both gates and reached the usage
\* store.
C3_Witness ==
  \E r, q \in Reqs :
     /\ reqs[r].pc = "done" /\ reqs[r].auth.isValid /\ ~reqs[r].rate.allowed
     /\ reqs[r].trace = <<"sha256", "validate_api_key", "checkRateLimit">>
     /\ reqs[q].rate.allowed /\ "usage_logs.insert" \in Events(q)

\* C4: for every request that reaches logUsage, however the insert and the
\* increment end (success, returned error, throw), the response returned is
\* exactly the one determined before logUsage was called.
C4_UsageFailureSwallowed ==
  \A r \in Reqs :
     (reqs[r].pc = "done" /\ "usage_logs.insert" \in Events(r)) =>
        /\ reqs[r].response # NoResponse
        /\ reqs[r].returned = reqs[r].response

\* A request whose usage insert threw, and one whose aggregate increment
\* threw, both answered with the successful response computed before.
C4_Witness ==
  \E r, q \in Reqs :
     /\ reqs[r].pc = "done" /\ reqs[r].insert = "throws" /\ reqs[r].returned.status = 200
     /\ reqs[q].pc = "done" /\ reqs[q].increment = "throws" /\ reqs[q].returned.status = 200

\* C5: logUsage is invoked only after the response is fixed (the 500 of the
\* catch block included), and the response_status written to the usage event
\* is the status of the response returned.
C5_LoggedStatusIsReturnedStatus ==
  /\ \A r \in Reqs :
        "usage_logs.insert" \in Events(r) => reqs[r].response # NoResponse
  /\ \A row \in usage_logs :
        /\ row.response_status = reqs[row.req].response.status
        /\ (reqs[row.req].pc = "done" =>
              row.response_status = reqs[row.req].returned.status)

\* A handler threw, the catch block made the 500, and the usage row of that
\* request carries 500; another row carries a 404.
C5_Witness ==
  \E row, other \in usage_logs :
     /\ reqs[row.req].pc = "done" /\ reqs[row.req].domain = "throws"
     /\ row.response_status = 500 /\ reqs[row.req].returned.status = 500
     /\ other.response_status = 404

\* The five preconditions of a credential, as the store sees them.
KnownKey(r) == Sha256Hex(reqs[r].key) \in DOMAIN ApiKeys
Answered(r) ==
  /\ "validate_api_key" \in Events(r) /\ reqs[r].pc # "awaitValidate"
  /\ ~reqs[r].answer.error

\* C7: for a well-formed credential, if the key is known, active, unexpired,
\* in good standing and within quota, authenticateRequest returns
\* isValid=true with the organization id, tier id, per-minute rate limit and
\* monthly limit the store returned; if exactly one precondition is false it
\* returns isValid=false with the corresponding code.
C7_AuthResultMapping ==
  \A r \in Reqs :
     Answered(r) =>
       LET a == reqs[r].auth
           c == reqs[r].answer.cred
           row == reqs[r].answer.data[1]
           o == ApiKeys[Sha256Hex(reqs[r].key)].organization_id
       IN /\ (KnownKey(r) /\ c = AllGood =>
                /\ a.isValid
                /\ a.organizationId = o /\ a.organizationId = row.organization_id
                /\ a.tierId = TierOf[o] /\ a.tierId = row.tier_id
                /\ a.rateLimit = {tierLimit[o]} /\ a.rateLimit = row.rate_limit
                /\ a.monthlyLimit = {MonthlyLimitOf[o]}
                /\ a.monthlyLimit = row.monthly_limit)
          /\ (~KnownKey(r) /\ c = AllGood =>
                ~a.isValid /\ a.errorCode = "invalid_key")
          /\ (KnownKey(r) /\ FalseCount(c) = 1 =>
                /\ ~a.isValid
                /\ (~c.active => a.errorCode = "key_disabled")
                /\ (~c.unexpired => a.errorCode = "key_expired")
                /\ (~c.subscription => a.errorCode = "subscription_inactive")
                /\ (~c.quota => a.errorCode = "quota_exceeded"))

\* One request authenticated with its organization's limits while the other
\* was refused because its subscription is inactive.
C7_Witness ==
  \E r, q \in Reqs :
     /\ Answered(r) /\ reqs[r].auth.isValid /\ reqs[r].auth.organizationId = "orgB"
     /\ reqs[r].auth.rateLimit = {MaxLimit}
     /\ Answered(q) /\ KnownKey(q) /\ reqs[q].auth.errorCode = "subscription_inactive"

AuthFailureKinds ==
  {"missing_auth", "invalid_format", "invalid_key", "key_disabled", "key_expired",
   "subscription_inactive", "quota_exceeded"}

RejectedAtAuth(r) ==
  reqs[r].pc = "done" /\ ~reqs[r].auth.isValid /\ reqs[r].auth.errorCode \in AuthFailureKinds

\* C8: the error.code of the envelope returned for an authentication failure
\* is a distinct string for each failure kind: two requests refused for
\* different kinds carry different codes.
C8_DistinctAuthErrorCodes ==
  \A r, q \in Reqs :
     (RejectedAtAuth(r) /\ RejectedAtAuth(q)
        /\ reqs[r].auth.errorCode # reqs[q].auth.errorCode) =>
       reqs[r].returned.code # reqs[q].returned.code

\* C9: a fault of the credential store during authentication is answered
\* with HTTP 500 and code internal_error, never as an unauthorized key.
C9_StoreFaultIsInternalError ==
  \A r \in Reqs :
     (reqs[r].pc = "done" /\ reqs[r].answer.error) =>
        /\ reqs[r].returned.status = 500
        /\ reqs[r].returned.code = "internal_error"

\* The credential pattern Bearer ci_(live|test)_<alphanumeric>: the scheme,
\* whitespace, the product prefix, an environment tag and a non-empty
\* alphanumeric secret, and nothing else.
CredentialPattern(h) ==
  \E n \in 1..Len(h), env \in {"live", "test"} :
     /\ Len(h) > n + 5
     /\ SubSeq(h, 1, n + 5) =
          <<"Bearer">> \o [i \in 1..n |-> h[i + 1]] \o <<"ci", "_", env, "_">>
     /\ \A i \in 2..(n + 1) : h[i] \in Whitespace
     /\ \A i \in (n + 6)..Len(h) : h[i] \in AlphaNum

\* The header is absent (or carries no value at all).
HeaderAbsent(hdr) == ~hdr.present \/ hdr.value = <<>>

\* C10: a request whose Authorization header does not match the credential
\* pattern is answered invalid_format (missing_auth when the header is
\* absent) without hashing a key and without any call to the credential store.
C10_MalformedFailsFast ==
  \A r \in Reqs :
     (reqs[r].pc # "idle" /\ ~CredentialPattern(reqs[r].header.value)) =>
        /\ ~reqs[r].auth.isValid
        /\ reqs[r].auth.errorCode =
             (IF HeaderAbsent(reqs[r].header) THEN "missing_auth" ELSE "invalid_format")
        /\ reqs[r].trace = <<>>
        /\ reqs[r].answer = NoAnswer
        /\ reqs[r].pc = "done"

\* One request with an unknown environment tag and one without the header
\* were both refused with no event at all.
C10_Witness ==
  \E r, q \in Reqs :
     /\ reqs[r].pc = "done" /\ reqs[r].auth.errorCode = "invalid_format"
     /\ reqs[r].header.value = <<"Bearer", " ", "ci", "_", "prod", "_", "a", "1">>
     /\ reqs[r].trace = <<>>
     /\ reqs[q].pc = "done" /\ reqs[q].auth.errorCode = "missing_auth"
     /\ ~reqs[q].header.present

\* The request got past both gates: authenticated and admitted by the limiter.
PassedGates(r) == reqs[r].auth.isValid /\ reqs[r].rate.called /\ reqs[r].rate.allowed

\* The original statement of C11: every request whose method is not GET is
\* answered 405 method_not_allowed and issues no domain query.
C11_EveryNonGetIs405 ==
  \A r \in Reqs :
     (reqs[r].pc = "done" /\ reqs[r].method # "GET") =>
        /\ reqs[r].returned.status = 405
        /\ reqs[r].returned.code = "method_not_allowed"
        /\ "domain_query" \notin Events(r)

\* C11: no request whose method is not GET issues a domain query, and every
\* such request that got past the authentication gate and the rate-limit
\* gate is answered 405 method_not_allowed (one stopped at a gate is
\* answered by that gate: 401 or 429).
C11_AdmittedNonGetIs405 ==
  \A r \in Reqs :
     (reqs[r].pc # "idle" /\ reqs[r].method # "GET") =>
        /\ "domain_query" \notin Events(r)
        /\ reqs[r].domain = Undefined
        /\ (PassedGates(r) =>
              /\ reqs[r].response.status = 405
              /\ reqs[r].response.code = "method_not_allowed")
        /\ (PassedGates(r) /\ reqs[r].pc = "done" =>
              /\ reqs[r].returned.status = 405
              /\ reqs[r].returned.code = "method_not_allowed")
        /\ (reqs[r].pc = "done" /\ ~PassedGates(r) => reqs[r].returned.status \in {401, 429})

\* A POST got past both gates and was answered 405 without a domain query,
\* while another POST was stopped at the authentication gate.
C11_Witness ==
  \E r, q \in Reqs :
     /\ reqs[r].pc = "done" /\ reqs[r].method = "POST" /\ PassedGates(r)
     /\ reqs[r].returned.status = 405
     /\ "domain_query" \notin Events(r)
     /\ reqs[q].pc = "done" /\ reqs[q].method = "POST" /\ reqs[q].returned.status = 401

\* C12: every request denied by the limiter is answered 429
\* rate_limit_exceeded with a Retry-After header and an error.retry_after
\* field, both the same positive number of seconds.
C12_DenialCarriesPositiveRetryAfter ==
  \A r \in Reqs :
     (reqs[r].pc = "done" /\ reqs[r].rate.called /\ ~reqs[r].rate.allowed) =>
        /\ reqs[r].returned.status = 429
        /\ reqs[r].returned.code = "rate_limit_exceeded"
        /\ reqs[r].returned.retryAfterHeader # None
        /\ reqs[r].returned.retry_after # None
        /\ reqs[r].returned.retryAfterHeader = reqs[r].returned.retry_after
        /\ \A s \in reqs[r].returned.retry_after : s > 0

(***************************************************************************)
(* Text.  A string is the sequence of its characters.                      *)
(***************************************************************************)
UpperCase ==
  <<"A", "B", "C", "D", "E", "F", "G", "H", "I", "J", "K", "L", "M",
    "N", "O", "P", "Q", "R", "S", "T", "U", "V", "W", "X", "Y", "Z">>

LowerCase ==
  <<"a", "b", "c", "d", "e", "f", "g", "h", "i", "j", "k", "l", "m",
    "n", "o", "p", "q", "r", "s", "t", "u", "v", "w", "x", "y", "z">>

Digits == <<"0", "1", "2", "3", "4", "5", "6", "7", "8", "9">>

\* Position of a character in a list of characters (0: not in it).
IndexIn(chars, c) ==
  IF \E i \in 1..Len(chars) : chars[i] = c
  THEN CHOOSE i \in 1..Len(chars) : chars[i] = c
  ELSE 0

ToLower(c) == IF IndexIn(UpperCase, c) > 0 THEN LowerCase[IndexIn(UpperCase, c)] ELSE c

ToUpper(c) == IF IndexIn(LowerCase, c) > 0 THEN UpperCase[IndexIn(LowerCase, c)] ELSE c

\* String.prototype.toUpperCase
toUpperCase(str) == [i \in 1..Len(str) |-> ToUpper(str[i])]

\* A value that is null, undefined or the empty string: `!value`.
Falsy(opt) == opt = None \/ opt = Some(<<>>)

\* ILIKE of the store: case-insensitive, % stands for any run of characters
\* and _ for any one character.
RECURSIVE LikeFrom(_, _, _, _)
LikeFrom(text, i, pattern, j) ==
  IF j > Len(pattern) THEN i > Len(text)
  ELSE IF pattern[j] = "%"
  THEN LikeFrom(text, i, pattern, j + 1)
         \/ (i <= Len(text) /\ LikeFrom(text, i + 1, pattern, j))
  ELSE /\ i <= Len(text)
       /\ (pattern[j] = "_" \/ ToLower(text[i]) = ToLower(pattern[j]))
       /\ LikeFrom(text, i + 1, pattern, j + 1)

\* column ILIKE pattern, for a column that may be NULL (NULL matches nothing).
ilike(column, pattern) == \E text \in column : LikeFrom(text, 1, pattern, 1)

\* model.replace(/-/g, '%')
modelPattern(model) == [i \in 1..Len(model) |-> IF model[i] = "-" THEN "%" ELSE model[i]]

\* `${trim}%`
prefixPattern(trim) == Append(trim, "%")

\* String.prototype.trim
RECURSIVE trimString(_)
trimString(str) ==
  IF str = <<>> THEN str
  ELSE IF Head(str) \in Whitespace THEN trimString(Tail(str))
  ELSE IF str[Len(str)] \in Whitespace THEN trimString(SubSeq(str, 1, Len(str) - 1))
  ELSE str

\* decoded.trim.split('/')[0].trim()
primaryTrim(trim) ==
  LET cut == IF IndexIn(trim, "/") > 0 THEN IndexIn(trim, "/") - 1 ELSE Len(trim)
  IN trimString(SubSeq(trim, 1, cut))

\* The value of the longest run of decimal digits of str that starts at i.
RECURSIVE DigitsValue(_, _, _)
DigitsValue(str, i, acc) ==
  IF i <= Len(str) /\ IndexIn(Digits, str[i]) > 0
  THEN DigitsValue(str, i + 1, acc * 10 + (IndexIn(Digits, str[i]) - 1))
  ELSE acc

\* parseInt(str): leading whitespace is skipped, then an optional sign and
\* the leading decimal digits are read; without a digit there the result is
\* NaN (None here).
parseInt(str) ==
  LET s == trimString(str)
      signed == s # <<>> /\ s[1] \in {"-", "+"}
      first == IF signed THEN 2 ELSE 1
  IN IF first <= Len(s) /\ IndexIn(Digits, s[first]) > 0
     THEN Some((IF signed /\ s[1] = "-" THEN -1 ELSE 1) * DigitsValue(s, first, 0))
     ELSE None

(***************************************************************************)
(* The domain store (vehicle_specs, vehicle_warranties,                    *)
(* vehicle_market_values, vehicle_maintenance_schedules) and its queries   *)
(***************************************************************************)
ValueOf(opt) == CHOOSE v \in opt : TRUE

\* `data || []`
OrEmpty(opt) == IF opt = None THEN <<>> ELSE ValueOf(opt)

Honda == <<"H", "o", "n", "d", "a">>
CR_hyphen_V == <<"C", "R", "-", "V">>
CR_space_V == <<"C", "R", " ", "V">>
EX == <<"E", "X">>
EX_L == <<"E", "X", "-", "L">>
Sport == <<"S", "p", "o", "r", "t">>
Clean == <<"C", "l", "e", "a", "n">>
Rough == <<"R", "o", "u", "g", "h">>
Average == <<"A", "v", "e", "r", "a", "g", "e">>

\* Rows of vehicle_specs.
SpecHyphen == [id |-> "s1", year |-> 2024, make |-> Honda, model |-> CR_hyphen_V, trim |-> Some(EX_L)]
SpecSpace == [id |-> "s2", year |-> 2024, make |-> Honda, model |-> CR_space_V, trim |-> None]

\* Rows of vehicle_warranties.
WarrantyHyphen == [vehicle_spec_id |-> "s1", warranty_type |-> "basic"]

\* Rows of vehicle_market_values: figures are nullable integers (cents).
MarketRow(model, trim, condition, tradeIn, privateParty, dealerRetail) ==
  [year |-> 2024, make |-> Honda, model |-> model, trim |-> trim, condition |-> condition,
   trade_in_cents |-> tradeIn, private_party_cents |-> privateParty,
   dealer_retail_cents |-> dealerRetail]

\* Rows of vehicle_maintenance_schedules; mileage is INTEGER NOT NULL, with
\* no constraint on its sign.
MaintenanceRow(model, trim, mileage) ==
  [year |-> 2024, make |-> Honda, model |-> model, trim |-> trim, mileage |-> mileage]

SpecsTables == {<<>>, <<SpecHyphen>>, <<SpecSpace>>, <<SpecSpace, SpecHyphen>>}

WarrantyTables == {<<>>, <<WarrantyHyphen>>}

MarketTables ==
  {<<>>,
   <<MarketRow(CR_hyphen_V, Some(EX_L), Clean, Some(2500000), Some(0), None),
     MarketRow(CR_hyphen_V, Some(EX_L), Rough, Some(1800000), Some(1900000), Some(2000000))>>,
   <<MarketRow(CR_space_V, None, Average, Some(2200000), Some(2300000), Some(2400000))>>}

MaintenanceTables ==
  {<<>>,
   <<MaintenanceRow(CR_hyphen_V, Some(EX_L), 30000), MaintenanceRow(CR_hyphen_V, Some(EX_L), 0),
     MaintenanceRow(CR_hyphen_V, None, 60000), MaintenanceRow(CR_hyphen_V, Some(EX_L), 15000)>>,
   <<MaintenanceRow(CR_space_V, None, 30000), MaintenanceRow(CR_space_V, None, -1),
     MaintenanceRow(CR_space_V, None, 7500)>>}

\* vehicle_warranties.vehicle_spec_id references vehicle_specs(id).
ForeignKeysHold(store) ==
  \A i \in 1..Len(store.vehicle_warranties) :
     \E j \in 1..Len(store.vehicle_specs) :
        store.vehicle_specs[j].id = store.vehicle_warranties[i].vehicle_spec_id

\* The contents the store is run with.  The order of a table is the order
\* in which a query without ORDER BY returns its rows.
Dbs ==
  { store \in [vehicle_specs : SpecsTables, vehicle_warranties : WarrantyTables,
               vehicle_market_values : MarketTables,
               vehicle_maintenance_schedules : MaintenanceTables] :
      ForeignKeysHold(store) }

\* What a query resolves to: {data, error}.
Answer(data) == [data |-> Some(data), error |-> None]

\* The store fails the query (any error other than "no rows").
Failed == [data |-> None, error |-> Some("XX000")]

\* .single(): exactly one row, or the error PGRST116.
single(rows) ==
  IF Len(rows) = 1 THEN Answer(rows[1]) ELSE [data |-> None, error |-> Some("PGRST116")]

\* .limit(n)
Limit(rows, n) == SubSeq(rows, 1, IF Len(rows) < n THEN Len(rows) ELSE n)

\* A plausible slip: the rows left in the order of the table.
orderByMileage_unordered(rows) == rows

\* .order('mileage', {ascending: true}); rows of equal mileage keep their order.
RECURSIVE orderByMileage(_)
orderByMileage(rows) ==
  IF rows = <<>> THEN <<>>
  ELSE LET least == CHOOSE i \in 1..Len(rows) :
                      \A j \in 1..Len(rows) :
                         \/ rows[i].mileage < rows[j].mileage
                         \/ (rows[i].mileage = rows[j].mileage /\ i <= j)
       IN <<rows[least]>> \o
          orderByMileage(SubSeq(rows, 1, least - 1) \o SubSeq(rows, least + 1, Len(rows)))

\* .limit(50) of the maintenance queries, .limit(20) of the market fallback
maintenanceLimit == 50
marketFallbackLimit == 20

Conditions(values) == { values[i].condition : i \in 1..Len(values) }

\* formatMarketValues: one entry per condition, a later row replacing an
\* earlier one of the same condition.
formatMarketValues(values) ==
  [c \in Conditions(values) |->
     LET last == CHOOSE i \in 1..Len(values) :
                   /\ values[i].condition = c
                   /\ \A j \in (i + 1)..Len(values) : values[j].condition # c
     IN [condition |-> c,
         trade_in_cents |-> values[last].trade_in_cents,
         private_party_cents |-> values[last].private_party_cents,
         dealer_retail_cents |-> values[last].dealer_retail_cents]]

(***************************************************************************)
(* handleLookup, vehicles/index.ts 397-483                                 *)
(***************************************************************************)
\* What a handler hands back: its response, the tables it queried (and the
\* decoder calls it made) in order, and what it held for each category when
\* it built the response.
Outcome(response, queries, specs, warranties, marketValues, maintenance) ==
  [response |-> response, queries |-> queries, specs |-> specs, warranties |-> warranties,
   marketValues |-> marketValues, maintenance |-> maintenance]

\* A response built before any query.
Rejected(response) == Outcome(response, <<>>, None, <<>>, None, None)

\* The queries handleLookup can issue.
LookupQueries == {"specs", "warranty", "market", "maintenance"}

\* The year/make/model(/trim) filter shared by the three tables.
ymmtMatch(row, yearInt, make, pattern, trim) ==
  /\ row.year = yearInt
  /\ ilike(Some(row.make), make)
  /\ ilike(Some(row.model), pattern)
  /\ (~Falsy(trim) => ilike(row.trim, prefixPattern(ValueOf(trim))))

\* A plausible slip: not found as soon as there is no specs row.
nothingFound_specsOnly(specs, warranties, marketValues, maintenance) == specs = None

\* if (!specs && !warranties?.length && !marketValues?.length && !maintenance?.length)
nothingFound(specs, warranties, marketValues, maintenance) ==
  /\ specs = None
  /\ Len(warranties) = 0
  /\ Len(OrEmpty(marketValues)) = 0
  /\ Len(OrEmpty(maintenance)) = 0

\* successResponse({specs, warranty, market_values, maintenance})
lookupData(specs, warranties, marketValues, maintenance) ==
  [specs |-> specs, warranty |-> warranties,
   market_values |-> formatMarketValues(OrEmpty(marketValues)),
   maintenance |-> OrEmpty(maintenance)]

\* params: the query parameters year, make, model, trim (None: not given);
\* faults: the queries the store fails.
handleLookup(store, params, faults) ==
  IF Falsy(params.year) \/ Falsy(params.make) \/ Falsy(params.model)
  THEN Rejected(errorResponse("missing_params", Msg("year, make, and model are required"),
                              400, None))
  ELSE IF parseInt(ValueOf(params.year)) = None
  THEN Rejected(errorResponse("invalid_params", Msg("year must be a number"), 400, None))
  ELSE
    LET yearInt == ValueOf(parseInt(ValueOf(params.year)))
        make == ValueOf(params.make)
        pattern == modelPattern(ValueOf(params.model))
        Matches(row) == ymmtMatch(row, yearInt, make, pattern, params.trim)
        specsAnswer ==
          IF "specs" \in faults THEN Failed
          ELSE single(Limit(SelectSeq(store.vehicle_specs, Matches), 1))
        specs == specsAnswer.data
        OfSpecs(row) == row.vehicle_spec_id = ValueOf(specs).id
        warrantyAnswer ==
          IF "warranty" \in faults THEN Failed
          ELSE Answer(SelectSeq(store.vehicle_warranties, OfSpecs))
        warranties == IF specs # None THEN OrEmpty(warrantyAnswer.data) ELSE <<>>
        marketAnswer ==
          IF "market" \in faults THEN Failed
          ELSE Answer(SelectSeq(store.vehicle_market_values, Matches))
        maintenanceAnswer ==
          IF "maintenance" \in faults THEN Failed
          ELSE Answer(Limit(orderByMileage(SelectSeq(store.vehicle_maintenance_schedules,
                                                      Matches)),
                            maintenanceLimit))
        queries == <<"specs">> \o (IF specs # None THEN <<"warranty">> ELSE <<>>)
                     \o <<"market", "maintenance">>
    IN IF specsAnswer.error # None /\ specsAnswer.error # Some("PGRST116")
       THEN Outcome(internalErrorResponse, <<"specs">>, None, <<>>, None, None)
       ELSE Outcome(IF nothingFound(specs, warranties, marketAnswer.data, maintenanceAnswer.data)
                    THEN notFoundResponse("No vehicle data found for the specified year, make, model")
                    ELSE successResponse(lookupData(specs, warranties, marketAnswer.data,
                                                    maintenanceAnswer.data)),
                    queries, specs, warranties, marketAnswer.data, maintenanceAnswer.data)

\* Values of the query parameters of /vehicles/lookup.
YearParams == {None, Some(<<"2", "0", "2", "4">>), Some(<<"n", "a">>)}
MakeParams == {None, Some(<<"h", "o", "n", "d", "a">>)}
ModelParams == {None, Some(CR_hyphen_V), Some(CR_space_V), Some(<<"c", "r", "-", "v">>)}
TrimParams == {None, Some(<<>>), Some(EX), Some(Sport)}
LookupParams == [year : YearParams, make : MakeParams, model : ModelParams, trim : TrimParams]

\* The store fails no query, or one of them.
FaultSets(queries) == {{}} \cup { {q} : q \in queries }

\* GET /vehicles/lookup?year=..&make=..&model=..&trim=..
Lookup ==
  /\ call.pc = "idle"
  /\ \E params \in LookupParams, faults \in FaultSets(LookupQueries) :
       call' = [pc |-> "done", handler |-> "handleLookup", params |-> params,
                faults |-> faults, result |-> handleLookup(db, params, faults)]
  /\ UNCHANGED <<limiterVars, tierLimit, gatewayVars, distVars, db, dashboardVars>>

(***************************************************************************)
(* handleMarketValue and handleMaintenance, vehicles/index.ts 552-651      *)
(***************************************************************************)
\* from('vehicle_specs').select(...).eq('id', vehicleId).single()
specsById(store, vehicleId, faults) ==
  LET HasId(row) == row.id = vehicleId
  IN IF "specs" \in faults THEN Failed ELSE single(SelectSeq(store.vehicle_specs, HasId))

\* `if (specs.trim)`
HasTrim(specs) == ~Falsy(specs.trim)

\* params: the query parameter current_mileage (None: not given).
handleMaintenance(store, vehicleId, params, faults) ==
  LET specsAnswer == specsById(store, vehicleId, faults)
  IN IF specsAnswer.data = None
     THEN Outcome(notFoundResponse("Vehicle not found"), <<"specs">>, None, <<>>, None, None)
     ELSE
       LET specs == ValueOf(specsAnswer.data)
           filtered == ~Falsy(params.current_mileage)
           floor == parseInt(ValueOf(params.current_mileage))
           Matches(row) ==
             /\ row.year = specs.year
             /\ ilike(Some(row.make), specs.make)
             /\ ilike(Some(row.model), specs.model)
             /\ (HasTrim(specs) => ilike(row.trim, prefixPattern(ValueOf(specs.trim))))
             /\ (filtered => row.mileage >= ValueOf(floor))
           \* gte('mileage', NaN) is not a query the store accepts
           answer ==
             IF "maintenance" \in faults \/ (filtered /\ floor = None) THEN Failed
             ELSE Answer(Limit(orderByMileage(SelectSeq(store.vehicle_maintenance_schedules,
                                                         Matches)),
                               maintenanceLimit))
       IN IF answer.error # None
          THEN Outcome(internalErrorResponse, <<"specs", "maintenance">>, specsAnswer.data,
                       <<>>, None, None)
          ELSE Outcome(successResponse(OrEmpty(answer.data)), <<"specs", "maintenance">>,
                       specsAnswer.data, <<>>, None, answer.data)

\* Math.round of the fraction num/den (den > 0): the nearest integer, a
\* half rounded up.
MathRound(num, den) == (2 * num + den) \div (2 * den)

\* vehicleAge * 12000
milesPerYear == 12000

\* Math.round(mileageDiff * -0.10 * 100), in cents: -0.10 is -10/100.  (The
\* product is an integer; the error of the floating-point product is far
\* below one half for any mileage.)
mileageAdjustment(mileageInt, vehicleAge) ==
  MathRound((mileageInt - vehicleAge * milesPerYear) * (-10) * 100, 100)

\* if (conditionData.x_cents) conditionData.x_cents += adjustment; a sum with
\* NaN is NaN, which the JSON body renders as null.
adjusted(figure, adjustment) ==
  IF ~Truthy(figure) THEN figure
  ELSE IF adjustment = None THEN None
  ELSE Some(ValueOf(figure) + ValueOf(adjustment))

\* params: the query parameters condition and mileage; thisYear: new Date().getFullYear().
handleMarketValue(store, vehicleId, params, thisYear, faults) ==
  LET specsAnswer == specsById(store, vehicleId, faults)
  IN IF specsAnswer.data = None
     THEN Outcome(notFoundResponse("Vehicle not found"), <<"specs">>, None, <<>>, None, None)
     ELSE
       LET specs == ValueOf(specsAnswer.data)
           Matches(row) ==
             /\ row.year = specs.year
             /\ ilike(Some(row.make), specs.make)
             /\ ilike(Some(row.model), specs.model)
             /\ (HasTrim(specs) => ilike(row.trim, ValueOf(specs.trim)))
             /\ (~Falsy(params.condition) => Some(row.condition) = params.condition)
           answer ==
             IF "market" \in faults THEN Failed
             ELSE Answer(SelectSeq(store.vehicle_market_values, Matches))
           result == formatMarketValues(OrEmpty(answer.data))
           mileageInt == parseInt(ValueOf(params.mileage))
           adjustment ==
             IF mileageInt = None THEN None
             ELSE Some(mileageAdjustment(ValueOf(mileageInt), thisYear - specs.year))
           final ==
             IF ~Falsy(params.mileage) /\ specs.year # 0
             THEN [c \in DOMAIN result |->
                     [result[c] EXCEPT
                        !.trade_in_cents = adjusted(@, adjustment),
                        !.private_party_cents = adjusted(@, adjustment),
                        !.dealer_retail_cents = adjusted(@, adjustment)]]
             ELSE result
       IN IF answer.error # None
          THEN Outcome(internalErrorResponse, <<"specs", "market">>, specsAnswer.data,
                       <<>>, None, None)
          ELSE Outcome(successResponse(final), <<"specs", "market">>, specsAnswer.data,
                       <<>>, answer.data, None)

VehicleIds == {"s1", "s2", "s9"}

\* Values of current_mileage and of mileage.
MileageParams ==
  {None, Some(<<>>), Some(<<"0">>), Some(<<"1", "5", "0", "0", "0">>),
   Some(<<"2", "4", "0", "0", "5">>), Some(<<"x">>)}

ConditionParams == {None, Some(<<>>), Some(Clean), Some(Average)}

\* Values of new Date().getFullYear().
Years == {2024, 2026}

\* GET /vehicles/:id/maintenance?current_mileage=..
Maintenance ==
  /\ call.pc = "idle"
  /\ \E vehicleId \in VehicleIds, mileage \in MileageParams,
        faults \in FaultSets({"specs", "maintenance"}) :
       LET params == [current_mileage |-> mileage]
       IN call' = [pc |-> "done", handler |-> "handleMaintenance", vehicleId |-> vehicleId,
                   params |-> params, faults |-> faults,
                   result |-> handleMaintenance(db, vehicleId, params, faults)]
  /\ UNCHANGED <<limiterVars, tierLimit, gatewayVars, distVars, db, dashboardVars>>

\* GET /vehicles/:id/market-value?condition=..&mileage=..
MarketValue ==
  /\ call.pc = "idle"
  /\ \E vehicleId \in VehicleIds, condition \in ConditionParams, mileage \in MileageParams,
        thisYear \in Years, faults \in FaultSets({"specs", "market"}) :
       LET params == [condition |-> condition, mileage |-> mileage]
       IN call' = [pc |-> "done", handler |-> "handleMarketValue", vehicleId |-> vehicleId,
                   params |-> params, thisYear |-> thisYear, faults |-> faults,
                   result |-> handleMarketValue(db, vehicleId, params, thisYear, faults)]
  /\ UNCHANGED <<limiterVars, tierLimit, gatewayVars, distVars, db, dashboardVars>>

(***************************************************************************)
(* handleVinDecode and handleVinLookup, vehicles/index.ts 175-395          *)
(***************************************************************************)
\* VIN must be exactly 17 characters
vinLength == 17

\* /^[A-HJ-NPR-Z0-9]{17}$/ : the characters the pattern admits
VinCharacter(c) ==
  \/ IndexIn(Digits, c) > 0
  \/ (IndexIn(UpperCase, c) > 0 /\ c \notin {"I", "O", "Q"})

\* A plausible slip: the length tested, the characters not.
vinProblem_lengthOnly(vin) ==
  IF vin = <<>> \/ Len(vin) # vinLength THEN "VIN must be exactly 17 characters" ELSE "none"

\* The two tests both VIN handlers start with: the message of the
\* invalid_vin error, or "none" for a VIN that passes.
vinProblem(vin) ==
  IF vin = <<>> \/ Len(vin) # vinLength THEN "VIN must be exactly 17 characters"
  ELSE IF \E i \in 1..Len(vin) : ~VinCharacter(toUpperCase(vin)[i])
  THEN "VIN contains invalid characters"
  ELSE "none"

\* What decodeVinWithNHTSA resolves to (the fields the handlers read), or
\* that it throws (the service unreachable or answering with an error status).
Decoded(year, make, model, trim) ==
  [kind |-> "decoded", year |-> year, make |-> make, model |-> model, trim |-> trim,
   error_code |-> Some(<<"0">>)]

DecodeThrows == [kind |-> "throws"]

HONDA == <<"H", "O", "N", "D", "A">>
TOYOTA == <<"T", "O", "Y", "O", "T", "A">>
EX_L_Navi == <<"E", "X", "-", "L", "/", "E", "X", "-", "L", " ", "N", "a", "v", "i">>

DecodeAnswers ==
  {DecodeThrows,
   Decoded(Some(2024), Some(HONDA), Some(CR_hyphen_V), Some(EX_L_Navi)),
   Decoded(Some(2024), Some(HONDA), Some(CR_hyphen_V), Some(Sport)),
   Decoded(Some(2024), Some(HONDA), Some(CR_space_V), None),
   Decoded(Some(2024), Some(TOYOTA), Some(CR_hyphen_V), None),
   Decoded(Some(2024), Some(HONDA), None, None),
   Decoded(None, Some(HONDA), Some(CR_hyphen_V), None),
   Decoded(Some(2024), None, None, None)}

\* handleVinDecode once the decoder has answered.
vinDecodeResponse(answer) ==
  IF answer.kind = "throws" THEN internalErrorResponse
  ELSE successResponse(answer)

\* The queries handleVinLookup can issue.
VinLookupQueries ==
  {"specs_trim", "specs", "warranty", "market_trim", "market", "maintenance_trim",
   "maintenance"}

\* The filter of handleVinLookup's queries; trimPrefix is None for the
\* queries without a trim filter.
vinMatch(row, decoded, pattern, trimPrefix) ==
  /\ row.year = ValueOf(decoded.year)
  /\ ilike(Some(row.make), ValueOf(decoded.make))
  /\ ilike(Some(row.model), pattern)
  /\ (trimPrefix # None => ilike(row.trim, prefixPattern(ValueOf(trimPrefix))))

\* A plausible slip: the absence policy of handleLookup applied to the VIN
\* lookup as well.
vinLookupResponse_notFoundWhenEmpty(answer, specs, warranties, marketValues, maintenance) ==
  IF specs = None /\ warranties = <<>> /\ marketValues = <<>> /\ maintenance = <<>>
  THEN notFoundResponse("No vehicle data found for the specified year, make, model")
  ELSE successResponse([vin_info |-> answer, specs |-> specs, warranty |-> warranties,
                        market_values |-> formatMarketValues(marketValues),
                        maintenance |-> maintenance])

\* return successResponse({vin_info: decoded, specs, warranty, market_values, maintenance})
vinLookupResponse(answer, specs, warranties, marketValues, maintenance) ==
  successResponse([vin_info |-> answer, specs |-> specs, warranty |-> warranties,
                   market_values |-> formatMarketValues(marketValues),
                   maintenance |-> maintenance])

\* handleVinLookup once the decoder has answered.
vinLookupOutcome(store, answer, faults) ==
  IF answer.kind = "throws"
  THEN Outcome(internalErrorResponse, <<>>, None, <<>>, None, None)
  ELSE IF ~Truthy(answer.year) \/ Falsy(answer.make) \/ Falsy(answer.model)
  THEN Outcome(errorResponse("decode_failed",
                             Msg("Could not decode vehicle information from VIN"), 400, None),
               <<>>, None, <<>>, None, None)
  ELSE
    LET pattern == modelPattern(ValueOf(answer.model))
        hasTrim == ~Falsy(answer.trim)
        primary == primaryTrim(ValueOf(answer.trim))
        hasPrimary == hasTrim /\ primary # <<>>
        WithTrim(row) == vinMatch(row, answer, pattern, Some(primary))
        WithoutTrim(row) == vinMatch(row, answer, pattern, None)
        Fetch(name, rows) == IF name \in faults THEN Failed ELSE Answer(rows)
        specsWithTrim ==
          IF "specs_trim" \in faults THEN Failed
          ELSE single(Limit(SelectSeq(store.vehicle_specs, WithTrim), 1))
        firstSpecs == IF hasTrim THEN specsWithTrim.data ELSE None
        specsWithoutTrim ==
          IF "specs" \in faults THEN Failed
          ELSE single(Limit(SelectSeq(store.vehicle_specs, WithoutTrim), 1))
        specs == IF firstSpecs = None THEN specsWithoutTrim.data ELSE firstSpecs
        OfSpecs(row) == row.vehicle_spec_id = ValueOf(specs).id
        warranties ==
          IF specs = None THEN <<>>
          ELSE OrEmpty(Fetch("warranty", SelectSeq(store.vehicle_warranties, OfSpecs)).data)
        marketWithTrim ==
          IF hasPrimary
          THEN OrEmpty(Fetch("market_trim",
                             SelectSeq(store.vehicle_market_values, WithTrim)).data)
          ELSE <<>>
        marketValues ==
          IF Len(marketWithTrim) = 0
          THEN OrEmpty(Fetch("market",
                             Limit(SelectSeq(store.vehicle_market_values, WithoutTrim),
                                   marketFallbackLimit)).data)
          ELSE marketWithTrim
        maintenanceWithTrim ==
          IF hasPrimary
          THEN OrEmpty(Fetch("maintenance_trim",
                             Limit(orderByMileage(SelectSeq(store.vehicle_maintenance_schedules,
                                                            WithTrim)),
                                   maintenanceLimit)).data)
          ELSE <<>>
        maintenance ==
          IF Len(maintenanceWithTrim) = 0
          THEN OrEmpty(Fetch("maintenance",
                             Limit(orderByMileage(SelectSeq(store.vehicle_maintenance_schedules,
                                                            WithoutTrim)),
                                   maintenanceLimit)).data)
          ELSE maintenanceWithTrim
        queries ==
          (IF hasTrim THEN <<"specs_trim">> ELSE <<>>)
            \o (IF firstSpecs = None THEN <<"specs">> ELSE <<>>)
            \o (IF specs # None THEN <<"warranty">> ELSE <<>>)
            \o (IF hasPrimary THEN <<"market_trim">> ELSE <<>>)
            \o (IF Len(marketWithTrim) = 0 THEN <<"market">> ELSE <<>>)
            \o (IF hasPrimary THEN <<"maintenance_trim">> ELSE <<>>)
            \o (IF Len(maintenanceWithTrim) = 0 THEN <<"maintenance">> ELSE <<>>)
    IN Outcome(vinLookupResponse(answer, specs, warranties, marketValues, maintenance),
               queries, specs, warranties, Some(marketValues), Some(maintenance))

GoodVin == <<"1", "H", "G", "C", "M", "8", "2", "6", "3", "3", "A", "0", "0", "4", "3", "5", "2">>

\* The :vin path segments the routes are run with (the router passes on
\* only a segment that is not empty).
VinInputs ==
  {GoodVin,
   [i \in 1..Len(GoodVin) |-> ToLower(GoodVin[i])],
   SubSeq(GoodVin, 1, Len(GoodVin) - 1),
   Append(GoodVin, "7"),
   <<"1">>,
   [GoodVin EXCEPT ![2] = "I"],
   [GoodVin EXCEPT ![3] = "o"],
   [GoodVin EXCEPT ![11] = "Q"],
   [GoodVin EXCEPT ![5] = "-"],
   [GoodVin EXCEPT ![17] = " "]}

VinHandlers == {"handleVinDecode", "handleVinLookup"}

\* GET /vehicles/decode/:vin and GET /vehicles/vin/:vin, up to the call of
\* the decoder: a VIN that fails the tests is answered at once.
VinRequest ==
  /\ call.pc = "idle"
  /\ \E handler \in VinHandlers, vin \in VinInputs :
       IF vinProblem(vin) # "none"
       THEN call' = [pc |-> "done", handler |-> handler, vin |-> vin,
                     answer |-> DecodeThrows, faults |-> {}, trace |-> <<>>,
                     result |-> Rejected(errorResponse("invalid_vin", Msg(vinProblem(vin)),
                                                       400, None))]
       ELSE call' = [pc |-> "awaitDecode", handler |-> handler, vin |-> vin,
                     trace |-> <<"decodeVinWithNHTSA">>]
  /\ UNCHANGED <<limiterVars, tierLimit, gatewayVars, distVars, db, dashboardVars>>

\* The decoder answers (or throws); handleVinLookup then queries the store.
DecodeReturns ==
  /\ call.pc = "awaitDecode"
  /\ \E answer \in DecodeAnswers, faults \in FaultSets(VinLookupQueries) :
       /\ (call.handler = "handleVinDecode" => faults = {})
       /\ LET result == IF call.handler = "handleVinDecode"
                        THEN Rejected(vinDecodeResponse(answer))
                        ELSE vinLookupOutcome(db, answer, faults)
          IN call' = [pc |-> "done", handler |-> call.handler, vin |-> call.vin,
                      answer |-> answer, faults |-> faults,
                      trace |-> call.trace \o result.queries, result |-> result]
  /\ UNCHANGED <<limiterVars, tierLimit, gatewayVars, distVars, db, dashboardVars>>

(***************************************************************************)
(* The domain handlers run against every content of the store              *)
(***************************************************************************)
DomainInit == InitCommon /\ tierLimit = [o \in Orgs |-> MaxLimit] /\ db \in Dbs

DomainNext == Lookup \/ Maintenance \/ MarketValue \/ VinRequest \/ DecodeReturns

SpecDomain == DomainInit /\ [][DomainNext]_vars

(***************************************************************************)
(* Claims about the domain handlers                                        *)
(***************************************************************************)
LookupDone == call.pc = "done" /\ call.handler = "handleLookup"

\* year, make and model are given and year is a number.
ValidLookup(params) ==
  /\ ~Falsy(params.year) /\ ~Falsy(params.make) /\ ~Falsy(params.model)
  /\ parseInt(ValueOf(params.year)) # None

\* The rows of a table that a lookup with these parameters selects.
Selected(table, params) ==
  { i \in 1..Len(table) :
      ymmtMatch(table[i], ValueOf(parseInt(ValueOf(params.year))), ValueOf(params.make),
                modelPattern(ValueOf(params.model)), params.trim) }

\* No row of any table has the year, make, model and trim asked for.
SelectsNoRow(store, params) ==
  /\ Selected(store.vehicle_specs, params) = {}
  /\ Selected(store.vehicle_market_values, params) = {}
  /\ Selected(store.vehicle_maintenance_schedules, params) = {}

WithoutTrim(params) == [params EXCEPT !.trim = None]

\* C13: when the store has data for the year, make and model, a lookup whose
\* trim matches no row gets the response of the lookup without trim, never
\* a 404.
C13_TrimFallsBack ==
  (/\ LookupDone /\ call.faults = {} /\ ValidLookup(call.params)
   /\ ~Falsy(call.params.trim)
   /\ SelectsNoRow(db, call.params)
   /\ ~SelectsNoRow(db, WithoutTrim(call.params))) =>
     LET plain == handleLookup(db, WithoutTrim(call.params), {})
     IN /\ call.result.response.status # 404
        /\ call.result.response.status = plain.response.status
        /\ call.result.specs = plain.specs
        /\ call.result.warranties = plain.warranties
        /\ call.result.marketValues = plain.marketValues
        /\ call.result.maintenance = plain.maintenance

\* The four categories as the handler held them are all empty.
AllEmpty(result) ==
  /\ result.specs = None
  /\ result.warranties = <<>>
  /\ OrEmpty(result.marketValues) = <<>>
  /\ OrEmpty(result.maintenance) = <<>>

\* C14: a lookup that gets as far as its absence test (valid parameters, the
\* specs query not failed by the store) is answered 404 not_found exactly
\* when specs, warranty, market values and maintenance are all empty;
\* otherwise it is answered 200 with specs null and the other categories
\* empty wherever nothing was found.
C14_AbsencePolicy ==
  (LookupDone /\ ValidLookup(call.params) /\ "specs" \notin call.faults) =>
     LET result == call.result
         response == result.response
     IN /\ (response.status = 404 <=> AllEmpty(result))
        /\ (response.status = 404 => response.code = "not_found")
        /\ (~AllEmpty(result) =>
              /\ response.status = 200
              /\ response.data.specs = result.specs
              /\ response.data.warranty = result.warranties
              /\ response.data.maintenance = OrEmpty(result.maintenance)
              /\ DOMAIN response.data.market_values = Conditions(OrEmpty(result.marketValues))
              /\ (result.specs = None => response.data.warranty = <<>>))

\* A lookup found market values and maintenance entries but no specs row:
\* it was answered 200 with specs null and an empty warranty list.
C14_Witness ==
  /\ LookupDone /\ call.faults = {}
  /\ call.result.specs = None
  /\ Len(OrEmpty(call.result.marketValues)) > 0
  /\ Len(OrEmpty(call.result.maintenance)) > 0
  /\ call.result.response.status = 200
  /\ call.result.response.data.specs = None
  /\ call.result.response.data.warranty = <<>>

\* The two spellings of the model name.
Spellings == {CR_hyphen_V, CR_space_V}

\* The same lookup with the other spelling of the model.
OtherSpelling(params) ==
  [params EXCEPT !.model = Some(CHOOSE m \in Spellings : Some(m) # params.model)]

\* C15: a lookup for "CR-V" and a lookup for "CR V" return the same specs
\* record, whichever of the two spellings the stored row has.
C15_ModelSpellingsAgree ==
  (/\ LookupDone /\ call.faults = {} /\ ValidLookup(call.params)
   /\ Falsy(call.params.trim)
   /\ call.params.model \in { Some(m) : m \in Spellings }) =>
     /\ call.result.specs = handleLookup(db, OtherSpelling(call.params), {}).specs
     /\ (\E i \in 1..Len(db.vehicle_specs) : db.vehicle_specs[i].model \in Spellings) =>
           call.result.specs # None

MaintenanceDone == call.pc = "done" /\ call.handler = "handleMaintenance"

NonDecreasing(list) ==
  \A i \in 1..(Len(list) - 1) : list[i].mileage <= list[i + 1].mileage

\* The maintenance entries the store holds for a vehicle.
EntriesFor(store, specs) ==
  { i \in 1..Len(store.vehicle_maintenance_schedules) :
      LET row == store.vehicle_maintenance_schedules[i]
      IN /\ row.year = specs.year
         /\ ilike(Some(row.make), specs.make)
         /\ ilike(Some(row.model), specs.model)
         /\ (specs.trim # None /\ specs.trim # Some(<<>>) =>
               ilike(row.trim, Append(ValueOf(specs.trim), "%"))) }

\* C16: the entries of a maintenance response are in non-decreasing order of
\* mileage; with current_mileage = X (X = 0 included) every one of them has
\* mileage >= X and every stored entry of the vehicle with mileage >= X is
\* returned; without the parameter every stored entry of the vehicle is
\* returned (up to the 50 rows a response holds).
C16_UpcomingMaintenanceOrdered ==
  (MaintenanceDone /\ call.result.response.status = 200) =>
     LET list == call.result.response.data
         given == call.params.current_mileage
         entries == EntriesFor(db, ValueOf(call.result.specs))
         due == IF given = None \/ given = Some(<<>>) THEN entries
                ELSE { i \in entries :
                         db.vehicle_maintenance_schedules[i].mileage
                           >= ValueOf(parseInt(ValueOf(given))) }
     IN /\ NonDecreasing(list)
        /\ (given # None /\ given # Some(<<>>) =>
              \A i \in 1..Len(list) : list[i].mileage >= ValueOf(parseInt(ValueOf(given))))
        /\ \A i \in 1..Len(list) :
              \E j \in due : db.vehicle_maintenance_schedules[j] = list[i]
        /\ Len(list) = (IF Cardinality(due) < maintenanceLimit THEN Cardinality(due)
                        ELSE maintenanceLimit)

\* A request with current_mileage=0 for a vehicle that has an entry below 0
\* was answered with the entries from 0 upwards, in order, out of a table
\* that holds them in another order.
C16_Witness ==
  /\ MaintenanceDone /\ call.result.response.status = 200
  /\ call.params.current_mileage = Some(<<"0">>)
  /\ Len(call.result.response.data) = 2
  /\ call.result.response.data[1].mileage < call.result.response.data[2].mileage
  /\ \E i \in EntriesFor(db, ValueOf(call.result.specs)) :
        db.vehicle_maintenance_schedules[i].mileage < 0
  /\ ~NonDecreasing(db.vehicle_maintenance_schedules)

MarketValueDone == call.pc = "done" /\ call.handler = "handleMarketValue"

Figures == {"trade_in_cents", "private_party_cents", "dealer_retail_cents"}

\* C17: with a mileage M given for a vehicle of age A, every figure present
\* in the result (one stored as 0 included) is the stored figure plus the
\* adjustment (M - 12000 * A) * -0.10 dollars, in cents.
C17_EveryFigureAdjusted ==
  (/\ MarketValueDone /\ call.result.response.status = 200
   /\ call.params.mileage # None /\ call.params.mileage # Some(<<>>)
   /\ parseInt(ValueOf(call.params.mileage)) # None) =>
     LET stored == formatMarketValues(OrEmpty(call.result.marketValues))
         M == ValueOf(parseInt(ValueOf(call.params.mileage)))
         A == call.thisYear - ValueOf(call.result.specs).year
         adjustment == (M - 12000 * A) * (-10)
         data == call.result.response.data
     IN /\ DOMAIN data = DOMAIN stored
        /\ \A c \in DOMAIN data : \A f \in Figures :
              IF stored[c][f] = None THEN data[c][f] = None
              ELSE data[c][f] = Some(ValueOf(stored[c][f]) + adjustment)

VinCall == call.pc # "idle" /\ call.handler \in VinHandlers

\* The letters and digits a VIN is made of: no I, O or Q, in either case.
LegalVinCharacters ==
  { Digits[i] : i \in 1..Len(Digits) }
    \cup ({ UpperCase[i] : i \in 1..Len(UpperCase) } \ {"I", "O", "Q"})
    \cup ({ LowerCase[i] : i \in 1..Len(LowerCase) } \ {"i", "o", "q"})

IllFormedVin(vin) == Len(vin) # vinLength \/ \E i \in 1..Len(vin) : vin[i] \notin LegalVinCharacters

\* C18: on the decode route and on the VIN lookup route, a VIN that is not
\* exactly 17 characters long or holds a character other than a letter or
\* digit, or one of I, O, Q, is answered 400 invalid_vin before any call of
\* the decoder and before any domain query.
C18_IllFormedVinRejectedFirst ==
  (VinCall /\ IllFormedVin(call.vin)) =>
     /\ call.pc = "done"
     /\ call.result.response.status = 400
     /\ call.result.response.code = "invalid_vin"
     /\ call.trace = <<>>
     /\ call.result.queries = <<>>

\* A VIN of 17 characters with a lower-case o was refused on the lookup
\* route without a call of the decoder or a query.
C18_Witness ==
  /\ VinCall /\ call.pc = "done" /\ call.handler = "handleVinLookup"
  /\ Len(call.vin) = vinLength /\ call.vin[3] = "o"
  /\ call.result.response.code = "invalid_vin"
  /\ call.trace = <<>>

VinLookupDone == call.pc = "done" /\ call.handler = "handleVinLookup"

\* The decoder gave a year, a make and a model.
DecodeComplete(answer) ==
  /\ answer.kind = "decoded"
  /\ answer.year # None /\ answer.year # Some(0)
  /\ answer.make # None /\ answer.make # Some(<<>>)
  /\ answer.model # None /\ answer.model # Some(<<>>)

\* The rows of a table for the decoded year, make and model.
LocalRows(table, answer) ==
  { i \in 1..Len(table) :
      /\ table[i].year = ValueOf(answer.year)
      /\ ilike(Some(table[i].make), ValueOf(answer.make))
      /\ ilike(Some(table[i].model), modelPattern(ValueOf(answer.model))) }

NoLocalRecords(store, answer) ==
  /\ LocalRows(store.vehicle_specs, answer) = {}
  /\ LocalRows(store.vehicle_market_values, answer) = {}
  /\ LocalRows(store.vehicle_maintenance_schedules, answer) = {}

\* The domain part of a VIN lookup response is empty.
EmptyDomainData(data) ==
  /\ data.specs = None
  /\ data.warranty = <<>>
  /\ DOMAIN data.market_values = {}
  /\ data.maintenance = <<>>

\* C19: a VIN lookup has three distinct outcomes besides found data: an
\* ill-formed VIN is answered invalid_vin; a decode without year, make or
\* model is answered decode_failed; a complete decode is answered 200 with
\* the decoded vin_info, and the domain part of that response is empty
\* exactly when the store holds no record of the vehicle.
C19_VinLookupOutcomesDistinct ==
  VinLookupDone =>
     LET response == call.result.response
     IN /\ (IllFormedVin(call.vin) =>
              response.status = 400 /\ response.code = "invalid_vin")
        /\ (~IllFormedVin(call.vin) /\ call.answer.kind = "decoded"
              /\ ~DecodeComplete(call.answer) =>
              response.status = 400 /\ response.code = "decode_failed")
        /\ (~IllFormedVin(call.vin) /\ DecodeComplete(call.answer) =>
              /\ response.status = 200
              /\ response.code \notin {"invalid_vin", "decode_failed", "not_found"}
              /\ response.data.vin_info = call.answer
              /\ (call.faults = {} =>
                    (EmptyDomainData(response.data) <=> NoLocalRecords(db, call.answer))))

\* A VIN decoded completely to a vehicle the store, though not empty, has no
\* record of: answered 200 with vin_info and an empty domain part.
C19_Witness ==
  /\ VinLookupDone /\ call.faults = {}
  /\ DecodeComplete(call.answer) /\ call.answer.make = Some(TOYOTA)
  /\ Len(db.vehicle_specs) > 0 /\ Len(db.vehicle_market_values) > 0
  /\ call.result.response.status = 200
  /\ call.result.response.data.vin_info = call.answer
  /\ EmptyDomainData(call.result.response.data)

\* C20: in the year/make/model/trim lookup and in the VIN lookup, a request
\* one of whose domain queries the store fails (with an error other than
\* "no rows") is answered 500.
C20_StoreFaultsFailClosed ==
  (/\ call.pc = "done" /\ call.handler \in {"handleLookup", "handleVinLookup"}
   /\ \E i \in 1..Len(call.result.queries) : call.result.queries[i] \in call.faults) =>
     /\ call.result.response.status = 500
     /\ call.result.response.code = "internal_error"

(***************************************************************************)
(* The gateway while the domain store stays silent.  The runtime hands     *)
(* every arrived request to the handler, and the credential store and the  *)
(* usage store answer every call made to them; nothing is assumed of the   *)
(* domain store.  The handler awaits its queries with no timeout and no    *)
(* abort signal, so no step of its own ends such a wait.                   *)
(***************************************************************************)
SpecDomainSilent ==
  /\ Init
  /\ [][Next]_vars
  /\ \A r \in Reqs :
        /\ WF_vars(Receive(r))
        /\ WF_vars(ValidateReturns(r))
        /\ WF_vars(InsertReturns(r))
        /\ WF_vars(IncrementReturns(r))

\* C21: every request that has arrived eventually reaches a terminal
\* response, also when an upstream dependency (here the domain store) never
\* answers.
C21_NoRequestHangs ==
  \A r \in Reqs : (reqs[r].pc # "idle") ~> (reqs[r].pc = "done")

\* No recording is in flight: every request is either not yet received or
\* answered.
NoRecordingInFlight == \A r \in Reqs : reqs[r].pc \in {"idle", "done"}

\* C22: once no recording is in flight, the aggregate request counter of
\* every organization (the sum of its daily counters over date, source and
\* endpoint) equals the number of its rows in usage_logs, whatever faults
\* the store showed on either write.
C22_AggregateEqualsRows ==
  NoRecordingInFlight =>
     \A o \in Orgs :
        daily_usage[o] = Cardinality({ row \in usage_logs : row.organization_id = o })

(***************************************************************************)
(* The same lookup twice, the store unchanged in between                   *)
(***************************************************************************)
\* Values of crypto.randomUUID().
RequestIds == {"uuid-1", "uuid-2"}

\* The JSON body of a response: successResponse adds meta.request_id, a
\* fresh random UUID; errorResponse has no meta.
responseBody(response, requestId) ==
  IF response.status = 200
  THEN [status |-> 200, data |-> response.data,
        meta |-> [request_id |-> requestId, tokens_used |-> 1]]
  ELSE [status |-> response.status, data |-> Undefined,
        error |-> [code |-> response.code, message |-> response.message]]

\* The orders in which the store may hand back the rows of a table to a
\* query that has no ORDER BY: any order.
ScanOrders(table) ==
  { [i \in 1..Len(table) |-> table[p[i]]] :
      p \in { q \in [1..Len(table) -> 1..Len(table)] :
                \A i, j \in 1..Len(table) : q[i] = q[j] => i = j } }

\* The store as one request sees it.  The specs, warranty and market-value
\* queries of handleLookup have no ORDER BY; the maintenance query has.
Scans(store) ==
  [vehicle_specs : ScanOrders(store.vehicle_specs),
   vehicle_warranties : ScanOrders(store.vehicle_warranties),
   vehicle_market_values : ScanOrders(store.vehicle_market_values),
   vehicle_maintenance_schedules : {store.vehicle_maintenance_schedules}]

\* GET /vehicles/lookup, answered.
FirstLookup ==
  /\ call.pc = "idle"
  /\ \E params \in LookupParams, scan \in Scans(db), requestId \in RequestIds :
       call' = [pc |-> "first", handler |-> "handleLookup", params |-> params,
                first |-> responseBody(handleLookup(scan, params, {}).response, requestId)]
  /\ UNCHANGED <<limiterVars, tierLimit, gatewayVars, distVars, db, dashboardVars>>

\* The identical request again; handleLookup only reads the store.
SecondLookup ==
  /\ call.pc = "first"
  /\ \E scan \in Scans(db), requestId \in RequestIds :
       call' = [pc |-> "second", handler |-> "handleLookup", params |-> call.params,
                first |-> call.first,
                second |-> responseBody(handleLookup(scan, call.params, {}).response,
                                        requestId)]
  /\ UNCHANGED <<limiterVars, tierLimit, gatewayVars, distVars, db, dashboardVars>>

RepeatNext == FirstLookup \/ SecondLookup

SpecRepeat == DomainInit /\ [][RepeatNext]_vars

\* C23: two identical lookups with no change of the data in between return
\* the same result (status and data; the request id of the envelope is left
\* aside).
C23_LookupIdempotent ==
  call.pc = "second" =>
     /\ call.first.status = call.second.status
     /\ (call.first.status = 200 => call.first.data = call.second.data)

(***************************************************************************)
(* Further claims about the local limiter                                  *)
(***************************************************************************)
\* This step is a call of checkRateLimit for organization o.
CallStep(o) ==
  /\ now' = now
  /\ <<rateLimitMap, lastCall, winFirst, winCalls, winAllowed, recentAllowed>>'
       # <<rateLimitMap, lastCall, winFirst, winCalls, winAllowed, recentAllowed>>
  /\ lastCall'.org = o

\* C24: a call for an organization with no entry, or with now - windowStart
\* above 60000 ms, is allowed and leaves the entry (count 1, windowStart
\* now); a call inside the window with count >= limit is denied with
\* retryAfter the least whole number of seconds covering the rest of the
\* window, between 0 and 60.
C24_WindowResetAndRetryHint ==
  [][\A o \in Orgs :
       CallStep(o) =>
         LET fresh == o \notin DOMAIN rateLimitMap
                        \/ now - rateLimitMap[o].windowStart > 60000
             rest == 60000 - (now - rateLimitMap[o].windowStart)
         IN /\ (fresh =>
                  /\ lastCall'.allowed
                  /\ rateLimitMap'[o] = [count |-> 1, windowStart |-> now])
            /\ (~fresh /\ rateLimitMap[o].count >= tierLimit[o] =>
                  /\ ~lastCall'.allowed
                  /\ lastCall'.retryAfter # None
                  /\ \A ra \in lastCall'.retryAfter :
                        /\ 0 <= ra /\ ra <= 60
                        /\ ra * 1000 >= rest
                        /\ (ra - 1) * 1000 < rest)
            /\ (~fresh /\ rateLimitMap[o].count < tierLimit[o] =>
                  /\ lastCall'.allowed
                  /\ rateLimitMap'[o] = [count |-> rateLimitMap[o].count + 1,
                                         windowStart |-> rateLimitMap[o].windowStart])
  ]_vars

\* A call exactly 60000 ms after the start of its window was still inside
\* it and was denied, with retryAfter 0.
C24_Witness ==
  /\ lastCall.org # "none" /\ ~lastCall.allowed
  /\ lastCall.elapsed = 60000
  /\ lastCall.retryAfter = Some(0)
  /\ rateLimitMap[lastCall.org].windowStart = now - 60000

\* C25: in any interval of 60 s one process answers allowed=true to at
\* most 2 * limit calls of one organization.  An interval holding allowed
\* calls can be shrunk to end at the last of them, so it is enough to count,
\* at every moment, the allowed calls of the 60 s up to now.
C25_BurstAtMostTwiceLimit ==
  \A o \in Orgs :
     Cardinality({ i \in 1..Len(recentAllowed[o]) :
                     now - recentAllowed[o][i] <= 60000 }) <= 2 * tierLimit[o]

\* Two windows met inside one 60 s interval: more calls than the limit were
\* allowed in it, the oldest in one window and the newest in the next.
C25_Witness ==
  \E o \in Orgs :
     /\ Len(recentAllowed[o]) > tierLimit[o]
     /\ recentAllowed[o][1] < rateLimitMap[o].windowStart
     /\ recentAllowed[o][Len(recentAllowed[o])] >= rateLimitMap[o].windowStart
     /\ now - recentAllowed[o][1] <= 60000

\* The entry of organization p in the map: none, or the one recorded.
Entry(map, p) == IF p \in DOMAIN map THEN {map[p]} ELSE {}

\* C28: a checkRateLimit call for one organization leaves the entry of every
\* other organization as it was, and a denied call leaves every entry as it
\* was, the caller's included.
C28_CallTouchesOnlyItsOrg ==
  [][\A o \in Orgs :
       CallStep(o) =>
         /\ \A p \in Orgs \ {o} :
               Entry(rateLimitMap', p) = Entry(rateLimitMap, p)
         /\ (~lastCall'.allowed => rateLimitMap' = rateLimitMap)
  ]_vars

\* A call was denied while another organization had an entry of its own.
C28_Witness ==
  /\ lastCall.org # "none" /\ ~lastCall.allowed
  /\ rateLimitMap[lastCall.org].count = tierLimit[lastCall.org]
  /\ \E p \in Orgs \ {lastCall.org} :
        p \in DOMAIN rateLimitMap /\ rateLimitMap[p].count >= 1

(***************************************************************************)
(* The dispatcher with the distributed limiter: index.ts 35-39 calling     *)
(* the async checkRateLimit of auth.ts 259-275                             *)
(***************************************************************************)
\* The checkRateLimit call a request makes.
CallerOf(r) == IF r = "r1" THEN "c1" ELSE "c2"

\* const rateLimitCheck = checkRateLimit(...) has no await: with the async
\* checkRateLimit the dispatcher holds the promise, and the properties
\* allowed and retryAfter it reads from a promise are both undefined.
promiseProperties == [allowed |-> None, retryAfter |-> None]

\* if (!rateLimitCheck.allowed) return ...: the gate is passed when the
\* property read is truthy.
rateLimitGateRead(rateLimitCheck) == \E a \in rateLimitCheck.allowed : a

\* validate_api_key answers and the handler runs up to its next await.  The
\* call of the async checkRateLimit runs to its own first await
\* (getRateLimiter, then rateLimiter.limit) and hands back a promise.
ValidateReturnsDistributed(r) ==
  /\ reqs[r].pc = "awaitValidate"
  /\ \E answer \in RpcAnswers(Sha256Hex(reqs[r].key), tierLimit) :
       LET auth == authResult(answer)
           got == [reqs[r] EXCEPT !.answer = answer, !.auth = auth]
       IN IF ~authGate(auth)
          THEN /\ Finish(r, got, unauthorizedResponse(auth.error))
               /\ UNCHANGED distVars
          ELSE LET rateLimitCheck == promiseProperties
                   checked == [got EXCEPT
                                 !.rate = [called |-> TRUE,
                                           allowed |-> rateLimitGateRead(rateLimitCheck),
                                           retryAfter |-> rateLimitCheck.retryAfter],
                                 !.trace = Append(@, "checkRateLimit")]
               IN /\ rateLimiters' = rateLimiters \cup {LimitOf(auth)}
                  /\ dist' = [dist EXCEPT ![CallerOf(r)] =
                                [IdleCall EXCEPT !.pc = "awaitLimit",
                                                 !.org = auth.organizationId,
                                                 !.limit = LimitOf(auth)]]
                  /\ IF ~rateLimitGateRead(rateLimitCheck)
                     THEN Finish(r, checked, rateLimitResponse(rateLimitCheck.retryAfter))
                     ELSE \E route \in SyncRoutes \cup DomainRoutes :
                            IF methodAllowed(got.method) /\ route \in DomainRoutes
                            THEN reqs' = [reqs EXCEPT ![r] =
                                     [checked EXCEPT !.pc = "awaitDomain",
                                                     !.endpoint = route,
                                                     !.trace = Append(@, "domain_query")]]
                            ELSE reqs' = [reqs EXCEPT ![r] =
                                     [checked EXCEPT !.pc = "awaitInsert",
                                                     !.endpoint = "url.pathname",
                                                     !.response = syncResponse(got.method, route),
                                                     !.trace = Append(@, "usage_logs.insert")]]
  /\ UNCHANGED <<limiterVars, tierLimit, usage_logs, daily_usage, domainVars, dashboardVars>>

\* The requests of a process that imports the distributed limiter, and the
\* counter service settling their checkRateLimit promises.  No request gets
\* past the rate-limit gate, so the later steps of the handler never run.
DispatchDistributedNext ==
  \/ \E r \in Reqs : Receive(r)
  \/ \E r \in Reqs : ValidateReturnsDistributed(r)
  \/ \E c \in Callers : DistLimitReturns(c)
  \/ ClockAdvances

SpecDispatchDistributed == Init /\ [][DispatchDistributedNext]_vars

\* C26: at the dispatcher the distributed limiter keeps the contract of the
\* local one: a request whose checkRateLimit call resolved to allowed is not
\* answered 429, and one whose call resolved to denied is answered 429
\* carrying the limiter's retryAfter.
C26_SameContractBothStrategies ==
  \A r \in Reqs :
     (reqs[r].pc = "done" /\ reqs[r].rate.called
        /\ dist[CallerOf(r)].pc = "returned") =>
           IF dist[CallerOf(r)].result.allowed
           THEN reqs[r].returned.status # 429
           ELSE /\ reqs[r].returned.status = 429
                /\ reqs[r].returned.retry_after = dist[CallerOf(r)].result.retryAfter

(***************************************************************************)
(* VIN lookup against a store with many market-value rows of one model     *)
(***************************************************************************)
Outstanding == <<"O", "u", "t", "s", "t", "a", "n", "d", "i", "n", "g">>
EX_L_Sensing == EX_L \o <<" ", "S", "e", "n", "s", "i", "n", "g">>
EX_L_AWD == EX_L \o <<" ", "A", "W", "D">>

\* Rows that differ in (model, trim, condition), as UNIQUE (year, make,
\* model, trim, condition) asks: two spellings of the model, three trims that
\* begin alike, the four conditions.
ManyMarketRows ==
  LET models == <<CR_hyphen_V, CR_space_V>>
      trims == <<EX_L, EX_L_Sensing, EX_L_AWD>>
      conditions == <<Outstanding, Clean, Average, Rough>>
  IN [i \in 1..(Len(models) * Len(trims) * Len(conditions)) |->
        MarketRow(models[((i - 1) \div (Len(trims) * Len(conditions))) + 1],
                  Some(trims[(((i - 1) \div Len(conditions)) % Len(trims)) + 1]),
                  conditions[((i - 1) % Len(conditions)) + 1],
                  Some(2000000 + i), Some(2100000 + i), Some(2200000 + i))]

ManyRowsDbs ==
  { [vehicle_specs |-> specs, vehicle_warranties |-> <<>>,
     vehicle_market_values |-> ManyMarketRows,
     vehicle_maintenance_schedules |-> maintenance] :
       specs \in SpecsTables, maintenance \in MaintenanceTables }

ManyRowsInit == InitCommon /\ tierLimit = [o \in Orgs |-> MaxLimit] /\ db \in ManyRowsDbs

VinNext == VinRequest \/ DecodeReturns

SpecVinManyRows == ManyRowsInit /\ [][VinNext]_vars

\* The row sets a finished VIN lookup ended with.
FinalMarketValues == ValueOf(call.result.marketValues)
FinalMaintenance == ValueOf(call.result.maintenance)
Queried(name) == \E i \in 1..Len(call.trace) : call.trace[i] = name

\* C27: in a VIN lookup the market-value and maintenance sets are asked for
\* with the primary trim first; without a decoded trim the trim-filtered
\* query is skipped; an empty trim-filtered set makes the query be repeated
\* without trim; and the market-value set holds at most 20 rows, the
\* maintenance set at most 50.
C27_VinSetsFallBackWithinCaps ==
  (VinLookupDone /\ call.result.marketValues # None) =>
     /\ (Falsy(call.answer.trim) =>
           ~Queried("market_trim") /\ ~Queried("maintenance_trim"))
     /\ (FinalMarketValues = <<>> => Queried("market"))
     /\ (FinalMaintenance = <<>> => Queried("maintenance"))
     /\ Len(FinalMarketValues) <= 20
     /\ Len(FinalMaintenance) <= 50

\* The logUsage calls of a request: each begins with the insert into usage_logs.
LogUsageCalls(r) ==
  Cardinality({ i \in 1..Len(reqs[r].trace) : reqs[r].trace[i] = "usage_logs.insert" })

\* C29: a request that passed both gates has called logUsage exactly once by
\* the time its response is returned, whatever the status (200, 400, 404,
\* 405, or the 500 of a throwing handler); a request answered 401 or 429 has
\* called it not at all; and no request calls it twice.
C29_LoggedExactlyOnce ==
  \A r \in Reqs :
     /\ LogUsageCalls(r) <= 1
     /\ (reqs[r].pc = "done" =>
           LogUsageCalls(r) = (IF PassedGates(r) THEN 1 ELSE 0))
     /\ (reqs[r].pc = "done" /\ reqs[r].returned.status \in {401, 429} =>
           LogUsageCalls(r) = 0)

\* A handler threw and its request was answered 500 after one logUsage call;
\* the other request was answered 429 without any.
C29_Witness ==
  \E r, q \in Reqs :
     /\ reqs[r].pc = "done" /\ reqs[r].domain = "throws"
     /\ reqs[r].returned.status = 500 /\ LogUsageCalls(r) = 1
     /\ reqs[q].pc = "done" /\ reqs[q].returned.status = 429 /\ LogUsageCalls(q) = 0

(***************************************************************************)
(* The dashboard's organization bootstrap: ensureOrganization and the      *)
(* effect of AuthProvider that calls it from two callbacks                 *)
(***************************************************************************)
Users == {"u1", "u2"}

\* .eq("owner_user_id", currentUser.id)
OwnedBy(user) == { row \in organizations : row.owner_user_id = user }

\* .maybeSingle(): no row gives null, one row gives the row, more than one
\* gives an error.
maybeSingle(rows) ==
  [data |-> IF Cardinality(rows) = 1 THEN rows ELSE None,
   error |-> Cardinality(rows) > 1]

\* `${userName...}-${Date.now()}`: the user's name and the clock reading.
slugOf(user, t) == <<user, t>>

\* The store accepts a row unless its slug is taken (slug is UNIQUE; nothing
\* is declared about owner_user_id beyond the reference to the user).
insertAccepted(rows, row) == \A other \in rows : other.slug # row.slug

FetchOutcomes == {"ok", "error"}

\* A callback got a session with a user and calls ensureOrganization: the
\* select is sent and awaited.
EnsureOrganization(run) ==
  /\ ensure[run].pc = "idle"
  /\ \E user \in Users :
       ensure' = [ensure EXCEPT ![run] = [IdleRun EXCEPT !.pc = "awaitSelect", !.user = user]]
  /\ UNCHANGED organizations
  /\ UNCHANGED <<limiterVars, tierLimit, gatewayVars, distVars, domainVars>>

\* The select answers.  With an error the run returns null, with a row it
\* returns the row's id, and with no row it builds the slug and sends the
\* insert.
OrganizationSelectReturns(run) ==
  /\ ensure[run].pc = "awaitSelect"
  /\ \E outcome \in FetchOutcomes :
       LET existingOrg == maybeSingle(OwnedBy(ensure[run].user))
       IN IF outcome = "error" \/ existingOrg.error
          THEN ensure' = [ensure EXCEPT ![run] = [@ EXCEPT !.pc = "done", !.result = None]]
          ELSE IF existingOrg.data # None
          THEN ensure' = [ensure EXCEPT ![run] =
                            [@ EXCEPT !.pc = "done",
                                      !.result = Some(ValueOf(existingOrg.data).id)]]
          ELSE ensure' = [ensure EXCEPT ![run] =
                            [@ EXCEPT !.pc = "awaitInsert",
                                      !.slug = slugOf(ensure[run].user, now)]]
  /\ UNCHANGED organizations
  /\ UNCHANGED <<limiterVars, tierLimit, gatewayVars, distVars, domainVars>>

\* The insert answers: the row is stored and its id returned, or the store
\* refuses it and the run returns null.
OrganizationInsertReturns(run) ==
  /\ ensure[run].pc = "awaitInsert"
  /\ \E outcome \in FetchOutcomes :
       LET newOrg == [id |-> run, slug |-> ensure[run].slug,
                      owner_user_id |-> ensure[run].user]
       IN IF outcome = "ok" /\ insertAccepted(organizations, newOrg)
          THEN /\ organizations' = organizations \cup {newOrg}
               /\ ensure' = [ensure EXCEPT ![run] =
                               [@ EXCEPT !.pc = "done", !.result = Some(newOrg.id)]]
          ELSE /\ UNCHANGED organizations
               /\ ensure' = [ensure EXCEPT ![run] = [@ EXCEPT !.pc = "done", !.result = None]]
  /\ UNCHANGED <<limiterVars, tierLimit, gatewayVars, distVars, domainVars>>

DashboardNext ==
  \/ \E run \in Runs : EnsureOrganization(run)
  \/ \E run \in Runs : OrganizationSelectReturns(run)
  \/ \E run \in Runs : OrganizationInsertReturns(run)
  \/ ClockAdvances

SpecDashboard == Init /\ [][DashboardNext]_vars

NoRunInFlight == \A run \in Runs : ensure[run].pc \in {"idle", "done"}

\* C30: once the ensureOrganization runs of the callbacks have ended, no
\* user owns more than one organization row.
C30_AtMostOneOrganizationPerUser ==
  NoRunInFlight => \A user \in Users : Cardinality(OwnedBy(user)) <= 1

====
